---- MODULE Spec2Model ----
(***************************************************************************)
(* Restartable Newton-Krylov solver hooks of klindsay28/newton.             *)
(*                                                                         *)
(* A driver process is invoked repeatedly on one work directory.  Each     *)
(* invocation re-runs the same hook sequence from the top; steps whose     *)
(* StepKey is found in the step log are skipped.  The only state shared    *)
(* by invocations is the saved step log and the files of the work          *)
(* directory.  Three hook families are modelled:                           *)
(*   "model"  src/model.py            run_ext_cmd,                         *)
(*                                    comp_jacobian_fcn_state_prod         *)
(*   "cesm"   src/newton_fcn_cesm_pop.py  comp_fcn, apply_precond_jacobian *)
(*   "test"   src/src/test_problem/model_state.py  comp_fcn,               *)
(*                                    apply_precond_jacobian               *)
(***************************************************************************)
EXTENDS Integers, Sequences, FiniteSets, TLC

(* ----------------------------- bounds ---------------------------------- *)

\* number of distinct iterates the driver may be started on
MaxState == 3

\* number of points of the one-dimensional grid
GridLen == 2

\* number of basis files of mod_gram_schmidt and lin_comb
MaxBasis == 2

\* number of operator calls in a row
MaxOps == 1

\* number of starting iterates of the Newton driver
MaxStart == 4

\* largest newton_max_iter of the configuration
MaxNewtonIter == 3

\* number of states of floats the operators are tried on
MaxFloat == 5

\* mantissa bits of a rounded float (53 in the program)
Prec == 3

\* largest binary exponent of a rounded float, either way
MaxExp == 12

\* number of invocations started by an operator (not by a finished job)
MaxInvoke == 2

\* number of times a process may be killed in mid-flight
MaxCrash == 2

(* ------------------------- names and values ---------------------------- *)

Variants == {"model", "cesm", "test"}

\* content of a file that does not exist
Missing == [missing |-> TRUE]

\* StepKeys, spelled as the hooks build them
K_jac == "comp_jacobian_fcn_state_prod_comp_fcn"
K_call == "calling ./comp_fcn.sh for fcn_res.nc"
K_pre == "_comp_fcn_pre_modelrun done for fcn.nc"
K_ps == "_apply_precond_jacobian_pre_solve_lin_eqns done for precond_res.nc"
K_sl == "_apply_precond_jacobian_solve_lin_eqns done for lin_eqns_soln_precond_res.nc"
K_done == "apply_precond_jacobian done for precond_res.nc"
K_cf == "comp_fcn complete for fcn.nc"
K_ap == "apply_precond_jacobian complete for precond_res.nc"

NoStep == "none"

Keys == {K_jac, K_call, K_pre, K_ps, K_sl, K_done, K_cf, K_ap}

FileNames ==
    {"ext_in.nc", "fcn_res.nc", "tracer_ic.nc", "restart.nc", "fcn.nc",
     "lin_eqns_soln_precond_res.nc", "precond_res.nc"}

VARIABLES
    variant,            \* which hook family this work directory runs
    batch_cmd_precond,  \* modelinfo: batch_cmd_precond is non-empty
    reinvoke,           \* modelinfo: reinvoke
    cmd,                \* what a process runs: the hooks for the driver ("driver"), or
                        \* comp_fcn alone with solver_state None ("comp_fcn")
    iterate,            \* the state the hooks are called on (from the work directory)
    direction,          \* the unit vector comp_jacobian_fcn_state_prod is called with
    fcn,                \* the residual at iterate that it is called with
    pc,                 \* position of the running process, "dead" when none
    trigger,            \* who started the running process: "operator" or "job"
    currstep,           \* SolverState: step in flight (in memory)
    step_log,           \* SolverState: logged steps (in memory)
    saved_state,        \* SolverState: logged steps (on storage)
    files,              \* work directory: file name -> content
    jobs,               \* external jobs submitted and still running
    reinv,              \* re-invocations of the driver queued by finished jobs
    submits,            \* StepKey -> number of submissions of its external command
    suspended,          \* StepKeys on which a process has suspended by exit
    evs,                \* what the running (or last) process has done so far
    ms_res,             \* state held by the running hook (a local), Missing if none
    sigma,              \* sigma of comp_jacobian_fcn_state_prod (a local), <<>> if none
    ret,                \* value returned to the caller of the last hook, Missing if none
    last_exit,          \* how the last process ended
    ninvoke,            \* operator invocations so far
    ncrash,             \* crashes so far
    snap,               \* the log and the files the running (or last) process started from
    seen,               \* what each earlier process started from and did
    failed,             \* StepKeys whose external command has exited with a non-zero status
    parent_pc,          \* position of the process that spawned the running one and
                        \* has not exited yet, "none" when there is none
    kpc,                \* position in mod_gram_schmidt or lin_comb, "idle" when not called
    basis,              \* the states in the files fname_fcn(quantity, 0 ..)
    vec,                \* self of mod_gram_schmidt
    h_val,              \* h_val of mod_gram_schmidt, one entry per column
    i_val,              \* i_val of mod_gram_schmidt
    coeff,              \* coeff of lin_comb, one entry per column
    res,                \* res of lin_comb
    j_val,              \* j_val of lin_comb
    heap,               \* the objects of the operator calls, by address
    lhs,                \* address of the ModelState an operator is called on
    rhs,                \* address of the ModelState passed as other
    out,                \* what the last operator returned or raised
    last,               \* the last operator called
    nops,               \* operators called so far
    nstate,             \* NewtonDriver: state of the outer iteration, "idle" when not run
    iter,               \* NewtonDriver: outer iterations completed
    nstep,              \* NewtonDriver: the Newton step
    njob,               \* NewtonDriver: the external evaluation under way
    newton_max_iter,    \* solverinfo: newton_max_iter
    x_0,                \* NewtonDriver: the starting iterate
    fn_pc,              \* position in a function that is called on its own, "idle" when none
    fn_args,            \* its arguments
    fn_tmp,             \* a local of it
    fn_ret              \* what it returned or raised

\* the variables of the hooks and of their environment
mainvars ==
    <<variant, batch_cmd_precond, reinvoke, cmd, iterate, direction, fcn, pc, trigger,
      currstep, step_log, saved_state, files, jobs, reinv, submits, suspended, evs,
      ms_res, sigma, ret, last_exit, ninvoke, ncrash, snap, seen, failed, parent_pc>>

krylovvars == <<kpc, basis, vec, h_val, i_val, coeff, res, j_val>>

\* the variables of the library calls that are modelled on their own
algvars == <<heap, lhs, rhs, out, last, nops>>

newtonvars == <<nstate, iter, nstep, njob, newton_max_iter, x_0>>

\* the variables of a function that is called on its own
fnvars == <<fn_pc, fn_args, fn_tmp, fn_ret>>

libvars == <<krylovvars, algvars, newtonvars, fnvars>>

vars == <<mainvars, libvars>>

cfgvars == <<variant, batch_cmd_precond, reinvoke, cmd, iterate, direction, fcn>>
envvars == <<jobs, reinv, ninvoke, ncrash>>

\* what a process and its environment hold, the files and ret apart
procvars ==
    <<pc, trigger, currstep, step_log, saved_state, jobs, reinv, submits, suspended,
      evs, ms_res, sigma, last_exit, ninvoke, ncrash>>
histvars == <<snap, seen, failed, parent_pc>>
logvars == <<currstep, step_log, saved_state>>

(* ------------------------------ numbers -------------------------------- *)

\* A float is modelled as an exact fraction <<n, d>> in lowest terms with
\* d >= 0; d = 0 stands for the IEEE specials: <<1, 0>> is inf, <<-1, 0>> is
\* -inf and <<0, 0>> is nan.  Rounding is modelled apart (Round).  Each operation binds
\* its operands once (x \in {a}), so that an operand is evaluated once.

Abs(n) == IF n < 0 THEN -n ELSE n

Sign(n) == IF n < 0 THEN -1 ELSE IF n > 0 THEN 1 ELSE 0

RECURSIVE Gcd(_, _)
Gcd(a, b) == IF b = 0 THEN a ELSE Gcd(b, a % b)

Frac(n, d) ==
    CHOOSE r \in {IF y = 0 THEN <<Sign(x), 0>>
                  ELSE IF y < 0
                       THEN <<(-x) \div Gcd(Abs(x), Abs(y)), (-y) \div Gcd(Abs(x), Abs(y))>>
                  ELSE <<x \div Gcd(Abs(x), Abs(y)), y \div Gcd(Abs(x), Abs(y))>> :
                  x \in {n}, y \in {d}} : TRUE

Float(n) == <<n, 1>>

NaN == <<0, 0>>

Inf == <<1, 0>>

IsNaN(a) == a = NaN

IsFinite(a) == a[2] # 0

FNeg(a) == CHOOSE r \in {<<-x[1], x[2]>> : x \in {a}} : TRUE

FAdd(a, b) ==
    CHOOSE r \in
        {IF IsNaN(x) \/ IsNaN(y) THEN NaN
         ELSE IF ~IsFinite(x) /\ ~IsFinite(y) THEN (IF x = y THEN x ELSE NaN)
         ELSE IF ~IsFinite(x) THEN x
         ELSE IF ~IsFinite(y) THEN y
         ELSE Frac(x[1] * (y[2] \div Gcd(x[2], y[2]))
                       + y[1] * (x[2] \div Gcd(x[2], y[2])),
                   (x[2] \div Gcd(x[2], y[2])) * y[2]) :
         x \in {a}, y \in {b}} : TRUE

FSub(a, b) == FAdd(a, FNeg(b))

FMul(a, b) ==
    CHOOSE r \in
        {IF ~IsFinite(x) \/ ~IsFinite(y) THEN <<Sign(x[1]) * Sign(y[1]), 0>>
         ELSE IF x[1] = 0 \/ y[1] = 0 THEN Float(0)
         ELSE Frac((x[1] \div Gcd(Abs(x[1]), y[2])) * (y[1] \div Gcd(Abs(y[1]), x[2])),
                   (x[2] \div Gcd(Abs(y[1]), x[2])) * (y[2] \div Gcd(Abs(x[1]), y[2]))) :
         x \in {a}, y \in {b}} : TRUE

\* 1.0 / a as numpy computes it: a zero gives inf
FRecip(a) ==
    CHOOSE r \in
        {IF x[1] = 0 THEN (IF x[2] = 0 THEN NaN ELSE Inf)
         ELSE IF x[1] < 0 THEN <<-x[2], -x[1]>>
         ELSE <<x[2], x[1]>> : x \in {a}} : TRUE

FDiv(a, b) == FMul(a, FRecip(b))

\* a < b; every comparison with nan is false.  Whole parts are compared
\* first so that no product leaves the range of the integers.
FLess(a, b) ==
    \E x \in {a}, y \in {b} :
        IF IsNaN(x) \/ IsNaN(y) THEN FALSE
        ELSE IF ~IsFinite(x) \/ ~IsFinite(y)
             THEN (x = FNeg(Inf) /\ y # FNeg(Inf)) \/ (y = Inf /\ x # Inf)
        ELSE IF x[1] \div x[2] # y[1] \div y[2] THEN x[1] \div x[2] < y[1] \div y[2]
        ELSE (x[1] % x[2]) * y[2] < (y[1] % y[2]) * x[2]

\* exact root of a square; the inputs of the model have rational norms
Isqrt(n) == CHOOSE r \in 0..n : r * r = n

FSqrt(a) ==
    CHOOSE r \in
        {IF ~IsFinite(x) THEN (IF x = Inf THEN Inf ELSE NaN)
         ELSE IF x[1] < 0 THEN NaN
         ELSE <<Isqrt(x[1]), Isqrt(x[2])>> : x \in {a}} : TRUE

\* one of the four arithmetic operations, by name
FOp(op, a, b) ==
    CASE op = "add" -> FAdd(a, b)
      [] op = "sub" -> FSub(a, b)
      [] op = "mul" -> FMul(a, b)
      [] op = "div" -> FDiv(a, b)

RECURSIVE FSum(_)
FSum(s) == IF s = <<>> THEN Float(0) ELSE FAdd(Head(s), FSum(Tail(s)))

(* --------------------------- rounded floats ----------------------------- *)

\* The operators above compute in exact fractions.  A float of the program
\* is an IEEE-754 double: every operation returns the representable number
\* nearest to the exact result, ties going to the even mantissa.  Round does
\* that for a mantissa of Prec bits instead of 53; the exponent range is not
\* bounded, so nothing overflows.

RECURSIVE Pow2(_)
Pow2(k) == IF k = 0 THEN 1 ELSE 2 * Pow2(k - 1)

\* the exponents that the numbers of the model need
Exponents == (0 - MaxExp)..MaxExp

\* |q| / 2^e as numerator and denominator
Scaled(q, e) ==
    IF e >= 0 THEN <<Abs(q[1]), q[2] * Pow2(e)>>
    ELSE <<Abs(q[1]) * Pow2(0 - e), q[2]>>

\* the exponent e with 2^(p-1) <= |q| / 2^e < 2^p
ExponentOf(p, q) ==
    CHOOSE e \in Exponents :
        \E s \in {Scaled(q, e)} :
            /\ Pow2(p - 1) * s[2] <= s[1]
            /\ s[1] < Pow2(p) * s[2]

\* n / d rounded to the nearest integer, ties to even
NearestEven(n, d) ==
    CHOOSE m \in {IF 2 * r < d THEN f
                  ELSE IF 2 * r > d THEN f + 1
                  ELSE IF f % 2 = 0 THEN f ELSE f + 1 :
                  f \in {n \div d}, r \in {n % d}} : TRUE

\* a rounded to a mantissa of p bits
RoundTo(p, a) ==
    CHOOSE r \in
        {IF ~IsFinite(q) \/ q[1] = 0 THEN q
         ELSE CHOOSE v \in
                  {IF e >= 0
                   THEN Frac(Sign(q[1]) * NearestEven(Scaled(q, e)[1], Scaled(q, e)[2])
                                 * Pow2(e), 1)
                   ELSE Frac(Sign(q[1]) * NearestEven(Scaled(q, e)[1], Scaled(q, e)[2]),
                             Pow2(0 - e)) : e \in {ExponentOf(p, q)}} : TRUE :
         q \in {a}} : TRUE

Round(a) == RoundTo(Prec, a)

\* a op b as the program computes it
ROp(op, a, b) == Round(FOp(op, a, b))

\* |a|
FAbs(a) == IF a[1] < 0 THEN FNeg(a) ELSE a

\* a <= b for numbers that are not nan
FLeq(a, b) == ~FLess(b, a)

(* ------------------------- arrays (numpy.ndarray) ---------------------- *)

\* A float array of a TracerModule has shape (number of variables, grid
\* length): a sequence of rows.  Grids are one-dimensional in the model.

Shape(m) == <<Len(m), Len(m[1])>>

\* numpy broadcasting of two shapes: equal extents, or one of them 1
BroadcastOk(sa, sb) == \A k \in 1..2 : sa[k] = sb[k] \/ sa[k] = 1 \/ sb[k] = 1

BroadcastShape(sa, sb) == [k \in 1..2 |-> IF sa[k] = 1 THEN sb[k] ELSE sa[k]]

Pick(m, i, j) ==
    m[IF Len(m) = 1 THEN 1 ELSE i][IF Len(m[1]) = 1 THEN 1 ELSE j]

\* a op b, elementwise with broadcasting
ArrBin(op, a, b) ==
    LET s == BroadcastShape(Shape(a), Shape(b))
    IN  [i \in 1..s[1] |-> [j \in 1..s[2] |-> FOp(op, Pick(a, i, j), Pick(b, i, j))]]

\* a op s and s op a for a float s
ArrFloat(op, a, s) ==
    [i \in 1..Len(a) |-> [j \in 1..Len(a[1]) |-> FOp(op, a[i][j], s)]]

FloatArr(op, s, a) ==
    [i \in 1..Len(a) |-> [j \in 1..Len(a[1]) |-> FOp(op, s, a[i][j])]]

ArrNeg(a) == [i \in 1..Len(a) |-> [j \in 1..Len(a[1]) |-> FNeg(a[i][j])]]

RECURSIVE Flatten(_)
Flatten(m) == IF m = <<>> THEN <<>> ELSE Head(m) \o Flatten(Tail(m))

\* numpy.einsum('ij,ij', a, b): the sum of the elementwise products
Einsum(a, b) == FSum(Flatten(ArrBin("mul", a, b)))

(* ------------------------------ exceptions ----------------------------- *)

Err(what) == [error |-> what]

IsErr(v) == "error" \in DOMAIN v

(* --------------------------- model.py: TracerModule -------------------- *)

\* line 291: the variables of each tracer module
ModuleVarnames == [x |-> <<"x1", "x2">>, y |-> <<"y">>]

\* a TracerModule: _name, _dims (the grid length) and _vals
TracerModule(name, dims, vals) == [name |-> name, dims |-> dims, vals |-> vals]

\* lines 349-356
TmNeg(self) == TracerModule(self.name, self.dims, ArrNeg(self.vals))

\* lines 358-370, 385-397, 412-424, 446-458: self op other for a TracerModule
\* other; numpy raises ValueError when the shapes do not broadcast
TmBin(op, self, other) ==
    IF BroadcastOk(Shape(self.vals), Shape(other.vals))
    THEN TracerModule(self.name, self.dims, ArrBin(op, self.vals, other.vals))
    ELSE Err("ValueError")

\* the same for a float other; self / other is (1.0 / other) * self._vals
\* and raises ZeroDivisionError for a Python float zero
TmFloat(op, self, other) ==
    IF op = "div"
    THEN IF other = Float(0) THEN Err("ZeroDivisionError")
         ELSE TracerModule(self.name, self.dims,
                           FloatArr("mul", FRecip(other), self.vals))
    ELSE TracerModule(self.name, self.dims, ArrFloat(op, self.vals, other))

\* lines 426-431 and 460-470: other * self and other / self for a float other
FloatTm(op, other, self) ==
    IF op = "div"
    THEN TracerModule(self.name, self.dims, FloatArr("div", other, self.vals))
    ELSE TmFloat(op, self, other)

\* lines 372-383, 399-410, 433-444, 472-483: self op= other; the result must
\* have the shape of self._vals, which is updated in place
TmIBin(op, self, other) ==
    IF BroadcastOk(Shape(self.vals), Shape(other.vals))
       /\ BroadcastShape(Shape(self.vals), Shape(other.vals)) = Shape(self.vals)
    THEN TracerModule(self.name, self.dims, ArrBin(op, self.vals, other.vals))
    ELSE Err("ValueError")

\* lines 485-492: numpy.einsum raises ValueError on shapes that do not
\* broadcast
TmDotOk(self, other) == BroadcastOk(Shape(self.vals), Shape(other.vals))

TmDot(self, other) == Einsum(self.vals, other.vals)

(* --------------------------- model.py: ModelState ---------------------- *)

\* 1.0e-5 of line 267 is 1 / SigmaScaleInv
SigmaScaleInv == 100000

\* 1.0e-10 of line 214 is 1 / (TolRootInv * TolRootInv)
TolRootInv == 100000

\* a ModelState: _tracer_module_names and _tracer_modules (_tracer_module_cnt
\* is the length of the names)
ModelState(names, mods) == [names |-> names, mods |-> mods]

\* the operand of an operator: a Python float, a numpy array of floats (one
\* per module) or a ModelState
PyFloat(v) == [float |-> v]

NdArray(c) == [ndarray |-> c]

IsFloat(v) == "float" \in DOMAIN v

IsNdarray(v) == "ndarray" \in DOMAIN v

IsMs(v) == "mods" \in DOMAIN v

\* broadcasting of two one-dimensional arrays of objects
ObjBroadcastOk(n, m) == n = m \/ n = 1 \/ m = 1

ObjLen(n, m) == IF n = 1 THEN m ELSE n

PickObj(s, i) == s[IF Len(s) = 1 THEN 1 ELSE i]

\* the first exception raised by an elementwise operation, if any
AnyErr(elems) == \E i \in 1..Len(elems) : IsErr(elems[i])

FirstErr(elems) ==
    elems[CHOOSE i \in 1..Len(elems) :
              IsErr(elems[i]) /\ \A j \in 1..(i - 1) : ~IsErr(elems[j])]

\* self._tracer_modules op other._tracer_modules
ElemsMs(op, a, b) ==
    [i \in 1..ObjLen(Len(a), Len(b)) |-> TmBin(op, PickObj(a, i), PickObj(b, i))]

\* self._tracer_modules op c for an array of floats c
ElemsCoef(op, a, c) ==
    [i \in 1..ObjLen(Len(a), Len(c)) |-> TmFloat(op, PickObj(a, i), PickObj(c, i))]

\* c / self._tracer_modules
CoefElems(op, c, a) ==
    [i \in 1..ObjLen(Len(a), Len(c)) |-> FloatTm(op, PickObj(c, i), PickObj(a, i))]

\* lines 40-47
MsNeg(self) ==
    ModelState(self.names, [i \in 1..Len(self.mods) |-> TmNeg(self.mods[i])])

\* lines 49-63, 87-101, 118-132, 156-170: self op other.  Division by a
\* float or an array multiplies by the reciprocal; any other operand makes
\* the method return NotImplemented, which Python turns into TypeError.
MsBinary(op, self, other) ==
    CASE IsFloat(other) ->
           IF op = "div"
           THEN IF other.float = Float(0) THEN Err("ZeroDivisionError")
                ELSE ModelState(self.names,
                         [i \in 1..Len(self.mods) |->
                             TmFloat("mul", self.mods[i], FRecip(other.float))])
           ELSE ModelState(self.names,
                    [i \in 1..Len(self.mods) |->
                        TmFloat(op, self.mods[i], other.float)])
      [] IsNdarray(other) ->
           IF Len(other.ndarray) # Len(self.names) THEN Err("TypeError")
           ELSE IF ~ObjBroadcastOk(Len(self.mods), Len(other.ndarray))
                THEN Err("ValueError")
           ELSE IF op = "div"
                THEN ModelState(self.names,
                         ElemsCoef("mul", self.mods,
                                   [i \in 1..Len(other.ndarray) |->
                                       FRecip(other.ndarray[i])]))
           ELSE ModelState(self.names, ElemsCoef(op, self.mods, other.ndarray))
      [] IsMs(other) ->
           IF ~ObjBroadcastOk(Len(self.mods), Len(other.mods))
           THEN Err("ValueError")
           ELSE LET elems == ElemsMs(op, self.mods, other.mods)
                IN  IF AnyErr(elems) THEN FirstErr(elems)
                    ELSE ModelState(self.names, elems)
      [] OTHER -> Err("TypeError")

\* lines 65-70, 134-139, 172-184: other op self.  There is no reversed
\* subtraction, and no reversed division by a ModelState.
MsReflected(op, self, other) ==
    CASE op \in {"add", "mul"} -> MsBinary(op, self, other)
      [] op = "div" /\ IsFloat(other) ->
           ModelState(self.names,
               [i \in 1..Len(self.mods) |->
                   FloatTm("div", other.float, self.mods[i])])
      [] op = "div" /\ IsNdarray(other) ->
           IF Len(other.ndarray) # Len(self.names) THEN Err("TypeError")
           ELSE IF ~ObjBroadcastOk(Len(self.mods), Len(other.ndarray))
                THEN Err("ValueError")
           ELSE ModelState(self.names, CoefElems("div", other.ndarray, self.mods))
      [] OTHER -> Err("TypeError")

\* lines 72-85, 103-116, 141-154, 186-199: self op= other.  The result is
\* stored into the array self._tracer_modules, whose length cannot grow.
MsInplace(op, self, other) ==
    IF IsMs(other) /\ ObjBroadcastOk(Len(self.mods), Len(other.mods))
       /\ ObjLen(Len(self.mods), Len(other.mods)) # Len(self.mods)
    THEN Err("ValueError")
    ELSE MsBinary(op, self, other)

\* lines 201-206: one dot product per module of self; a module that other
\* does not have raises IndexError
MsDotOk(self, other) ==
    \A i \in 1..Len(self.names) :
        /\ i <= Len(other.mods)
        /\ TmDotOk(self.mods[i], other.mods[i])

MsDot(self, other) ==
    [i \in 1..Len(self.names) |-> TmDot(self.mods[i], other.mods[i])]

\* lines 208-210
MsNorm(self) == [i \in 1..Len(self.names) |-> FSqrt(MsDot(self, self)[i])]

\* v < 1.0e-10
BelowTol(v) == FLess(FMul(v, Float(TolRootInv)), Frac(1, TolRootInv))

\* converged() that is satisfied by one module
converged_any(self) == \E i \in 1..Len(self.names) : BelowTol(MsNorm(self)[i])

\* lines 212-214
converged(self) == \A i \in 1..Len(self.names) : BelowTol(MsNorm(self)[i])

(* ------------------------------ test states ---------------------------- *)

\* a TracerModule and a ModelState read from a file holding the given
\* integers, one row per variable
TmOf(name, rows) ==
    TracerModule(name, Len(rows[1]),
                 [i \in 1..Len(rows) |->
                     [j \in 1..Len(rows[1]) |-> Float(rows[i][j])]])

MsOf(xrows, yrows) == ModelState(<<"x", "y">>, <<TmOf("x", xrows), TmOf("y", yrows)>>)

(* ------------------ SolverState (step log, checkpoint) ------------------ *)

\* set_currstep that also marks the key complete
set_currstep_logs(key) ==
    /\ currstep' = key
    /\ step_log' = step_log \cup {key}

\* set_currstep(key): records the step in flight, commits nothing
set_currstep(key) ==
    /\ currstep' = key
    /\ step_log' = step_log

\* currstep_logged()
currstep_logged(cs, log) == cs \in log

\* step_logged(key)
step_logged(key, log) == key \in log


\* log_step that flips the mark of the key
log_step_toggle(key, log) == IF key \in log THEN log \ {key} ELSE log \cup {key}

\* log_step(key): the logged set after marking key complete
log_step(key, log) == log \cup {key}

\* flush(): the pending log state, the step in flight, is committed
flush(cs, log) == IF cs = NoStep THEN log ELSE log \cup {cs}

\* a new process reads the log from storage
load_log(saved) == saved

(* ------------------------------ values --------------------------------- *)

\* ModelState(names, fname): the content of fname
LoadState(fname) == files[fname]

\* a row of the grid holding v at its first point
GridRow(v) == [j \in 1..GridLen |-> IF j = 1 THEN v ELSE 0]

\* the k-th iterate: all-zero, then with an all-zero module y, then with no
\* zero module; the norm of every module is rational
IterateOf(k) ==
    MsOf(<<GridRow(3 * (k - 1)), GridRow(4 * (k - 1))>>,
         <<GridRow(IF k > 2 THEN k ELSE 0)>>)

\* the direction with norm 1 in every module that points along grid point p
DirectionOf(p) ==
    MsOf(<<[j \in 1..GridLen |-> IF j = p THEN 1 ELSE 0], GridRow(0)>>,
         <<[j \in 1..GridLen |-> IF j = p THEN 1 ELSE 0]>>)

\* the residual computed by the external command is F(v) = v - Target
Target == MsOf(<<GridRow(1), GridRow(0)>>, <<GridRow(1)>>)

\* result of the external residual evaluation on input v
ExtResult(v) == MsBinary("sub", v, Target)

\* line 267: sigma = 1.0e-5 * self.norm()
Sigma(x) ==
    [i \in 1..Len(x.names) |-> FMul(Frac(1, SigmaScaleInv), MsNorm(x)[i])]

\* line 274: self + sigma * direction
Perturbed(x, sg) ==
    MsBinary("add", x, MsReflected("mul", direction, NdArray(sg)))

\* line 278: (ModelState(names, res_fname) - fcn) / sigma
FiniteDiff(r, f, sg) ==
    MsBinary("div", MsBinary("sub", r, f), NdArray(sg))

\* ModelState(fname) - ms_in
StateDiff(a, b) == MsBinary("sub", a, b)

\* result of the linear solves on the content v of the solution file; the
\* solver is an external program, here v * 2.0 + 1.0
SolveResult(v) == MsBinary("add", MsBinary("mul", v, PyFloat(Float(2))), PyFloat(Float(1)))

\* results of the test problem's residual and preconditioner on iterate x;
\* their numerics are outside the model, here x * x + 3.0 and x * 3.0 - 1.0
TestFcn(x) == MsBinary("add", MsBinary("mul", x, x), PyFloat(Float(3)))
TestPrecond(x) == MsBinary("sub", MsBinary("mul", x, PyFloat(Float(3))), PyFloat(Float(1)))

Event(what, key) == <<what, key>>

Did(what, key) == \E i \in 1..Len(evs) : evs[i] = Event(what, key)

\* the process ends: everything it held in memory is gone
EndProcess(how) ==
    /\ pc' = "dead"
    /\ last_exit' = how
    /\ step_log' = {}
    /\ currstep' = NoStep
    /\ ms_res' = Missing
    /\ sigma' = <<>>


(* ------------------ model.py: comp_jacobian_fcn_state_prod -------------- *)

\* lines 267-274: sigma, set_currstep, currstep_logged, call of run_ext_cmd
JfspCheck ==
    /\ pc = "jfsp_check"
    /\ sigma' = Sigma(iterate)
    /\ set_currstep(K_jac)
    /\ IF currstep_logged(currstep', step_log')
       THEN /\ pc' = "jfsp_ret"
            /\ evs' = Append(evs, Event("skip", K_jac))
       ELSE /\ pc' = "rec_check"
            /\ evs' = Append(evs, Event("enter", K_jac))
    /\ UNCHANGED <<cfgvars, libvars, histvars, envvars, trigger, saved_state, files,
                   submits, suspended, ms_res, ret, last_exit>>

\* JfspReturn that hands back the content of fcn_res.nc as it is
JfspReturn_raw ==
    /\ pc = "jfsp_ret"
    /\ IF LoadState("fcn_res.nc") = Missing
       THEN /\ EndProcess("error")
            /\ evs' = Append(evs, Event("raise", K_jac))
            /\ ret' = ret
       ELSE /\ EndProcess("complete")
            /\ evs' = Append(evs, Event("return", K_jac))
            /\ ret' = LoadState("fcn_res.nc")
    /\ UNCHANGED <<cfgvars, libvars, histvars, envvars, trigger, saved_state, files, submits,
                   suspended>>

\* line 278: the finite difference is built from the content of fcn_res.nc
JfspReturn ==
    /\ pc = "jfsp_ret"
    /\ IF LoadState("fcn_res.nc") = Missing
       THEN /\ EndProcess("error")
            /\ evs' = Append(evs, Event("raise", K_jac))
            /\ ret' = ret
       ELSE /\ EndProcess("complete")
            /\ evs' = Append(evs, Event("return", K_jac))
            /\ ret' = FiniteDiff(LoadState("fcn_res.nc"), fcn, sigma)
    /\ UNCHANGED <<cfgvars, libvars, histvars, envvars, trigger, saved_state, files, submits,
                   suspended>>

(* ------------------------- model.py: run_ext_cmd ------------------------ *)


\* RecCheck without the early return of line 244
RecCheck_noreturn ==
    /\ pc = "rec_check"
    /\ set_currstep(K_call)
    /\ pc' = "rec_dump"
    /\ evs' = Append(evs, Event(IF currstep_logged(currstep', step_log')
                                THEN "skip" ELSE "enter", K_call))
    /\ UNCHANGED <<cfgvars, libvars, histvars, envvars, trigger, saved_state, files,
                   submits, suspended, ms_res, sigma, ret, last_exit>>

\* lines 239-246: set_currstep, then branch on currstep_logged
RecCheck ==
    /\ pc = "rec_check"
    /\ set_currstep(K_call)
    /\ IF currstep_logged(currstep', step_log')
       THEN /\ pc' = "rec_load"
            /\ evs' = Append(evs, Event("skip", K_call))
       ELSE /\ pc' = "rec_dump"
            /\ evs' = Append(evs, Event("enter", K_call))
    /\ UNCHANGED <<cfgvars, libvars, histvars, envvars, trigger, saved_state, files,
                   submits, suspended, ms_res, sigma, ret, last_exit>>

\* line 244: return ModelState(names, res_fname); a missing file raises
RecLoad ==
    /\ pc = "rec_load"
    /\ IF LoadState("fcn_res.nc") = Missing
       THEN /\ EndProcess("error")
            /\ evs' = Append(evs, Event("raise", K_call))
       ELSE /\ pc' = "jfsp_ret"
            /\ ms_res' = LoadState("fcn_res.nc")
            /\ evs' = Append(evs, Event("load", K_call))
            /\ UNCHANGED <<last_exit, step_log, currstep, sigma>>
    /\ UNCHANGED <<cfgvars, libvars, histvars, envvars, trigger, saved_state, files, submits,
                   suspended, ret>>

\* lines 248-249: self.dump(ext_cmd_in_fname)
RecDump ==
    /\ pc = "rec_dump"
    /\ files' = [files EXCEPT !["ext_in.nc"] = Perturbed(iterate, sigma)]
    /\ evs' = Append(evs, Event("work", K_call))
    /\ pc' = "rec_popen"
    /\ UNCHANGED <<cfgvars, libvars, histvars, envvars, logvars, trigger, submits, suspended,
                   ms_res, sigma, ret, last_exit>>

\* line 250: subprocess.Popen, not waited for
RecPopen ==
    /\ pc = "rec_popen"
    /\ jobs' = jobs + 1
    /\ submits' = [submits EXCEPT ![K_call] = @ + 1]
    /\ evs' = Append(evs, Event("submit", K_call))
    /\ pc' = "rec_flush"
    /\ UNCHANGED <<cfgvars, libvars, histvars, reinv, ninvoke, ncrash, logvars, trigger, files,
                   suspended, ms_res, sigma, ret, last_exit>>


\* RecFlush that writes nothing
RecFlush_skip ==
    /\ pc = "rec_flush"
    /\ evs' = Append(evs, Event("flush", currstep))
    /\ pc' = "rec_exit"
    /\ UNCHANGED <<cfgvars, libvars, histvars, envvars, logvars, trigger, files, submits,
                   suspended, ms_res, sigma, ret, last_exit>>

\* line 253: solver_state.flush()
RecFlush ==
    /\ pc = "rec_flush"
    /\ step_log' = flush(currstep, step_log)
    /\ saved_state' = flush(currstep, step_log)
    /\ evs' = Append(evs, Event("flush", currstep))
    /\ pc' = "rec_exit"
    /\ UNCHANGED <<cfgvars, libvars, histvars, envvars, trigger, currstep, files, submits,
                   suspended, ms_res, sigma, ret, last_exit>>


\* RecExit that falls through to the caller instead of exiting
RecExit_return ==
    /\ pc = "rec_exit"
    /\ pc' = "jfsp_ret"
    /\ UNCHANGED <<cfgvars, libvars, histvars, envvars, logvars, trigger, files, submits,
                   suspended, evs, ms_res, sigma, ret, last_exit>>

\* line 256: sys.exit()
RecExit ==
    /\ pc = "rec_exit"
    /\ EndProcess("suspend")
    /\ suspended' = suspended \cup {K_call}
    /\ evs' = Append(evs, Event("exit", K_call))
    /\ UNCHANGED <<cfgvars, libvars, histvars, envvars, trigger, saved_state, files, submits, ret>>

(* ------------- newton_fcn_cesm_pop.py: NewtonFcn.comp_fcn --------------- *)


\* CfPreCheck with the test of line 265 inverted
CfPreCheck_inverted ==
    /\ pc = "cf_pre_check"
    /\ IF ~step_logged(K_pre, step_log)
       THEN /\ pc' = "cf_post"
            /\ evs' = Append(evs, Event("skip", K_pre))
       ELSE /\ pc' = "cf_pre_dump"
            /\ evs' = Append(evs, Event("enter", K_pre))
    /\ UNCHANGED <<cfgvars, libvars, histvars, envvars, logvars, trigger, files, submits,
                   suspended, ms_res, sigma, ret, last_exit>>

\* _comp_fcn_pre_modelrun, lines 264-268: return at once when logged
CfPreCheck ==
    /\ pc = "cf_pre_check"
    /\ IF step_logged(K_pre, step_log)
       THEN /\ pc' = "cf_post"
            /\ evs' = Append(evs, Event("skip", K_pre))
       ELSE /\ pc' = "cf_pre_dump"
            /\ evs' = Append(evs, Event("enter", K_pre))
    /\ UNCHANGED <<cfgvars, libvars, histvars, envvars, logvars, trigger, files, submits,
                   suspended, ms_res, sigma, ret, last_exit>>

\* lines 270-289: tracer_ic is written, the case is prepared
CfPreDump ==
    /\ pc = "cf_pre_dump"
    /\ files' = [files EXCEPT !["tracer_ic.nc"] = iterate]
    /\ evs' = Append(evs, Event("work", K_pre))
    /\ pc' = "cf_submit"
    /\ UNCHANGED <<cfgvars, libvars, histvars, envvars, logvars, trigger, submits, suspended,
                   ms_res, sigma, ret, last_exit>>

\* line 292: _case_submit(), subprocess.run(check=True): a failure raises
CfSubmit ==
    /\ pc = "cf_submit"
    /\ \E ok \in BOOLEAN :
        IF ok
        THEN /\ jobs' = jobs + 1
             /\ submits' = [submits EXCEPT ![K_pre] = @ + 1]
             /\ evs' = Append(evs, Event("submit", K_pre))
             /\ pc' = "cf_pre_log"
             /\ UNCHANGED <<logvars, ms_res, sigma, last_exit>>
        ELSE /\ EndProcess("error")
             /\ evs' = Append(evs, Event("raise", K_pre))
             /\ UNCHANGED <<jobs, submits, saved_state>>
    /\ UNCHANGED <<cfgvars, libvars, histvars, reinv, ninvoke, ncrash, trigger, files, suspended,
                   ret>>

\* line 294: solver_state.log_step(fcn_complete_step)
CfPreLog ==
    /\ pc = "cf_pre_log"
    /\ step_log' = log_step(K_pre, step_log)
    /\ saved_state' = log_step(K_pre, step_log)
    /\ evs' = Append(evs, Event("log", K_pre))
    /\ pc' = "cf_pre_exit"
    /\ UNCHANGED <<cfgvars, libvars, histvars, envvars, trigger, currstep, files, submits,
                   suspended, ms_res, sigma, ret, last_exit>>

\* line 297: raise SystemExit
CfPreExit ==
    /\ pc = "cf_pre_exit"
    /\ EndProcess("suspend")
    /\ suspended' = suspended \cup {K_pre}
    /\ evs' = Append(evs, Event("exit", K_pre))
    /\ UNCHANGED <<cfgvars, libvars, histvars, envvars, trigger, saved_state, files, submits, ret>>

\* lines 146-151: _gen_hist, _comp_fcn_post_modelrun, dump(res_fname)
CfPost ==
    /\ pc = "cf_post"
    /\ IF LoadState("restart.nc") = Missing
       THEN /\ EndProcess("error")
            /\ evs' = Append(evs, Event("raise", K_pre))
            /\ UNCHANGED files
       ELSE /\ files' = [files EXCEPT
                           !["fcn.nc"] = StateDiff(LoadState("restart.nc"), iterate)]
            /\ evs' = Append(evs, Event("post", K_pre))
            /\ pc' = "apc_check"
            /\ UNCHANGED <<logvars, ms_res, sigma, last_exit>>
    /\ UNCHANGED <<cfgvars, libvars, histvars, envvars, trigger, saved_state, submits, suspended,
                   ret>>

(* -------- newton_fcn_cesm_pop.py: NewtonFcn.apply_precond_jacobian ------ *)


\* ApcCheck without the early return of line 240
ApcCheck_noreturn ==
    /\ pc = "apc_check"
    /\ pc' = "ps_check"
    /\ evs' = Append(evs, Event(IF step_logged(K_done, step_log)
                                THEN "skip" ELSE "enter", K_done))
    /\ UNCHANGED <<cfgvars, libvars, histvars, envvars, logvars, trigger, files, submits,
                   suspended, ms_res, sigma, ret, last_exit>>

\* lines 237-241: return ModelState(res_fname) when logged
ApcCheck ==
    /\ pc = "apc_check"
    /\ IF step_logged(K_done, step_log)
       THEN /\ pc' = "apc_load"
            /\ evs' = Append(evs, Event("skip", K_done))
       ELSE /\ pc' = "ps_check"
            /\ evs' = Append(evs, Event("enter", K_done))
    /\ UNCHANGED <<cfgvars, libvars, histvars, envvars, logvars, trigger, files, submits,
                   suspended, ms_res, sigma, ret, last_exit>>

\* line 240: ModelState(res_fname); a missing file raises
ApcLoad ==
    /\ pc = "apc_load"
    /\ IF LoadState("precond_res.nc") = Missing
       THEN /\ EndProcess("error")
            /\ evs' = Append(evs, Event("raise", K_done))
            /\ ret' = ret
       ELSE /\ EndProcess("complete")
            /\ evs' = Append(evs, Event("load", K_done))
            /\ ret' = LoadState("precond_res.nc")
    /\ UNCHANGED <<cfgvars, libvars, histvars, envvars, trigger, saved_state, files, submits,
                   suspended>>

\* _apply_precond_jacobian_pre_solve_lin_eqns, lines 387-393
PsCheck ==
    /\ pc = "ps_check"
    /\ IF step_logged(K_ps, step_log)
       THEN /\ pc' = "sl_check"
            /\ evs' = Append(evs, Event("skip", K_ps))
       ELSE /\ pc' = IF batch_cmd_precond THEN "ps_submit" ELSE "ps_log"
            /\ evs' = Append(evs, Event("enter", K_ps))
    /\ UNCHANGED <<cfgvars, libvars, histvars, envvars, logvars, trigger, files, submits,
                   suspended, ms_res, sigma, ret, last_exit>>

\* lines 394-401: subprocess.run(batch_cmd invoker --resume, check=True)
PsSubmit ==
    /\ pc = "ps_submit"
    /\ \E ok \in BOOLEAN :
        IF ok
        THEN /\ reinv' = reinv + 1
             /\ submits' = [submits EXCEPT ![K_ps] = @ + 1]
             /\ evs' = Append(Append(evs, Event("work", K_ps)), Event("submit", K_ps))
             /\ pc' = "ps_log_exit"
             /\ UNCHANGED <<logvars, ms_res, sigma, last_exit>>
        ELSE /\ EndProcess("error")
             /\ evs' = Append(Append(evs, Event("work", K_ps)), Event("raise", K_ps))
             /\ UNCHANGED <<reinv, submits, saved_state>>
    /\ UNCHANGED <<cfgvars, libvars, histvars, jobs, ninvoke, ncrash, trigger, files, suspended,
                   ret>>

\* line 402: log_step after the submission
PsLogExit ==
    /\ pc = "ps_log_exit"
    /\ step_log' = log_step(K_ps, step_log)
    /\ saved_state' = log_step(K_ps, step_log)
    /\ evs' = Append(evs, Event("log", K_ps))
    /\ pc' = "ps_exit"
    /\ UNCHANGED <<cfgvars, libvars, histvars, envvars, trigger, currstep, files, submits,
                   suspended, ms_res, sigma, ret, last_exit>>

\* PsExit that returns to the caller instead of raising SystemExit
PsExit_return ==
    /\ pc = "ps_exit"
    /\ pc' = "sl_check"
    /\ suspended' = suspended \cup {K_ps}
    /\ evs' = Append(evs, Event("exit", K_ps))
    /\ UNCHANGED <<cfgvars, libvars, histvars, envvars, logvars, trigger, files, submits, ret,
                   ms_res, sigma, last_exit>>

\* line 404: raise SystemExit
PsExit ==
    /\ pc = "ps_exit"
    /\ EndProcess("suspend")
    /\ suspended' = suspended \cup {K_ps}
    /\ evs' = Append(evs, Event("exit", K_ps))
    /\ UNCHANGED <<cfgvars, libvars, histvars, envvars, trigger, saved_state, files, submits, ret>>

\* lines 406-407: with an empty batch_cmd_precond, log and return
PsLog ==
    /\ pc = "ps_log"
    /\ step_log' = log_step(K_ps, step_log)
    /\ saved_state' = log_step(K_ps, step_log)
    /\ evs' = Append(Append(evs, Event("work", K_ps)), Event("log", K_ps))
    /\ pc' = "sl_check"
    /\ UNCHANGED <<cfgvars, libvars, histvars, envvars, trigger, currstep, files, submits,
                   suspended, ms_res, sigma, ret, last_exit>>

\* _apply_precond_jacobian_solve_lin_eqns, lines 416-420
SlCheck ==
    /\ pc = "sl_check"
    /\ IF step_logged(K_sl, step_log)
       THEN /\ pc' = "sl_load"
            /\ evs' = Append(evs, Event("skip", K_sl))
       ELSE /\ pc' = "sl_dump"
            /\ evs' = Append(evs, Event("enter", K_sl))
    /\ UNCHANGED <<cfgvars, libvars, histvars, envvars, logvars, trigger, files, submits,
                   suspended, ms_res, sigma, ret, last_exit>>

\* line 419: return ModelState(res_fname)
SlLoad ==
    /\ pc = "sl_load"
    /\ IF LoadState("lin_eqns_soln_precond_res.nc") = Missing
       THEN /\ EndProcess("error")
            /\ evs' = Append(evs, Event("raise", K_sl))
       ELSE /\ pc' = "apc_log"
            /\ ms_res' = LoadState("lin_eqns_soln_precond_res.nc")
            /\ evs' = Append(evs, Event("load", K_sl))
            /\ UNCHANGED <<last_exit, step_log, currstep, sigma>>
    /\ UNCHANGED <<cfgvars, libvars, histvars, envvars, trigger, saved_state, files, submits,
                   suspended, ret>>

\* line 422: ms_in.dump(res_fname)
SlDump ==
    /\ pc = "sl_dump"
    /\ files' = [files EXCEPT !["lin_eqns_soln_precond_res.nc"] = iterate]
    /\ evs' = Append(evs, Event("work", K_sl))
    /\ pc' = "sl_solve"
    /\ UNCHANGED <<cfgvars, libvars, histvars, envvars, logvars, trigger, submits, suspended,
                   ms_res, sigma, ret, last_exit>>

\* lines 424-444: the solves run in place on res_fname (check=True), then
\* ms_res = ModelState(res_fname)
SlSolve ==
    /\ pc = "sl_solve"
    /\ \E ok \in BOOLEAN :
        IF ok
        THEN /\ files' = [files EXCEPT !["lin_eqns_soln_precond_res.nc"] =
                              SolveResult(@)]
             /\ ms_res' = SolveResult(files["lin_eqns_soln_precond_res.nc"])
             /\ evs' = Append(evs, Event("solve", K_sl))
             /\ pc' = "sl_log"
             /\ UNCHANGED <<logvars, last_exit, sigma>>
        ELSE /\ EndProcess("error")
             /\ evs' = Append(evs, Event("raise", K_sl))
             /\ UNCHANGED <<files, saved_state>>
    /\ UNCHANGED <<cfgvars, libvars, histvars, envvars, trigger, submits, suspended, ret>>


\* SlLog that rewrites the saved log with the new key alone
SlLog_overwrite ==
    /\ pc = "sl_log"
    /\ step_log' = {K_sl}
    /\ saved_state' = {K_sl}
    /\ evs' = Append(evs, Event("log", K_sl))
    /\ pc' = "apc_log"
    /\ UNCHANGED <<cfgvars, libvars, histvars, envvars, trigger, currstep, files, submits,
                   suspended, ms_res, sigma, ret, last_exit>>

\* lines 446-448: log_step, return ms_res
SlLog ==
    /\ pc = "sl_log"
    /\ step_log' = log_step(K_sl, step_log)
    /\ saved_state' = log_step(K_sl, step_log)
    /\ evs' = Append(evs, Event("log", K_sl))
    /\ pc' = "apc_log"
    /\ UNCHANGED <<cfgvars, libvars, histvars, envvars, trigger, currstep, files, submits,
                   suspended, ms_res, sigma, ret, last_exit>>

\* lines 250-252: ms_res -= ms_in, then log_step(fcn_complete_step)
ApcLog ==
    /\ pc = "apc_log"
    /\ ms_res' = StateDiff(ms_res, iterate)
    /\ step_log' = log_step(K_done, step_log)
    /\ saved_state' = log_step(K_done, step_log)
    /\ evs' = Append(Append(evs, Event("work", K_done)), Event("log", K_done))
    /\ pc' = "apc_dump"
    /\ UNCHANGED <<cfgvars, libvars, histvars, sigma, envvars, trigger, currstep, files, submits,
                   suspended, ret, last_exit>>

\* line 255: return ms_res.dump(res_fname)
ApcDump ==
    /\ pc = "apc_dump"
    /\ files' = [files EXCEPT !["precond_res.nc"] = ms_res]
    /\ ret' = ms_res
    /\ evs' = Append(evs, Event("write", K_done))
    /\ EndProcess("complete")
    /\ UNCHANGED <<cfgvars, libvars, histvars, envvars, trigger, saved_state, submits, suspended>>

(* --------------- test_problem/model_state.py: comp_fcn ------------------ *)

\* lines 156-161: the log is looked at only when a solver_state is passed
TcfCheck ==
    /\ pc = "tcf_check"
    /\ IF cmd # "driver"
       THEN /\ pc' = "tcf_comp"
            /\ evs' = evs
       ELSE IF step_logged(K_cf, step_log)
       THEN /\ pc' = "tcf_load"
            /\ evs' = Append(evs, Event("skip", K_cf))
       ELSE /\ pc' = "tcf_comp"
            /\ evs' = Append(evs, Event("enter", K_cf))
    /\ UNCHANGED <<cfgvars, libvars, histvars, envvars, logvars, trigger, files, submits,
                   suspended, ms_res, sigma, ret, last_exit>>

\* line 160: return ModelState(res_fname)
TcfLoad ==
    /\ pc = "tcf_load"
    /\ IF LoadState("fcn.nc") = Missing
       THEN /\ EndProcess("error")
            /\ evs' = Append(evs, Event("raise", K_cf))
       ELSE /\ pc' = "tap_check"
            /\ ms_res' = LoadState("fcn.nc")
            /\ evs' = Append(evs, Event("load", K_cf))
            /\ UNCHANGED <<last_exit, step_log, currstep, sigma>>
    /\ UNCHANGED <<cfgvars, libvars, histvars, envvars, trigger, saved_state, files, submits,
                   suspended, ret>>

\* lines 163-193: the ODEs are solved, comp_fcn_postprocess writes res_fname
TcfComp ==
    /\ pc = "tcf_comp"
    /\ ms_res' = TestFcn(iterate)
    /\ files' = [files EXCEPT !["fcn.nc"] = TestFcn(iterate)]
    /\ evs' = Append(evs, Event("work", K_cf))
    /\ pc' = IF cmd = "driver" THEN "tcf_log" ELSE "tcf_ret"
    /\ UNCHANGED <<cfgvars, libvars, histvars, sigma, envvars, logvars, trigger, submits, suspended, ret,
                   last_exit>>

\* line 204 and main, lines 83-98: with solver_state None comp_fcn returns
\* ms_res; main reads res_fname back and is done
TcfReturn ==
    /\ pc = "tcf_ret"
    /\ ret' = LoadState("fcn.nc")
    /\ evs' = Append(evs, Event("return", K_cf))
    /\ EndProcess("complete")
    /\ UNCHANGED <<cfgvars, libvars, histvars, envvars, trigger, saved_state, files, submits,
                   suspended>>

\* TcfLog that leaves the log on storage as it was
TcfLog_unsaved ==
    /\ pc = "tcf_log"
    /\ step_log' = log_step(K_cf, step_log)
    /\ saved_state' = saved_state
    /\ evs' = Append(evs, Event("log", K_cf))
    /\ pc' = IF reinvoke THEN "tcf_popen" ELSE "tap_check"
    /\ UNCHANGED <<cfgvars, libvars, histvars, envvars, trigger, currstep, files, submits,
                   suspended, ms_res, sigma, ret, last_exit>>

\* lines 195-197, 204: log_step, then branch on reinvoke
TcfLog ==
    /\ pc = "tcf_log"
    /\ step_log' = log_step(K_cf, step_log)
    /\ saved_state' = log_step(K_cf, step_log)
    /\ evs' = Append(evs, Event("log", K_cf))
    /\ pc' = IF reinvoke THEN "tcf_popen" ELSE "tap_check"
    /\ UNCHANGED <<cfgvars, libvars, histvars, envvars, trigger, currstep, files, submits,
                   suspended, ms_res, sigma, ret, last_exit>>

\* lines 198-201: subprocess.Popen(invoker --resume), not waited for
TcfPopen ==
    /\ pc = "tcf_popen"
    /\ reinv' = reinv + 1
    /\ submits' = [submits EXCEPT ![K_cf] = @ + 1]
    /\ evs' = Append(evs, Event("submit", K_cf))
    /\ pc' = "tcf_exit"
    /\ UNCHANGED <<cfgvars, libvars, histvars, jobs, ninvoke, ncrash, logvars, trigger, files,
                   suspended, ms_res, sigma, ret, last_exit>>

\* line 202: raise SystemExit
TcfExit ==
    /\ pc = "tcf_exit"
    /\ EndProcess("suspend")
    /\ suspended' = suspended \cup {K_cf}
    /\ evs' = Append(evs, Event("exit", K_cf))
    /\ UNCHANGED <<cfgvars, libvars, histvars, envvars, trigger, saved_state, files, submits, ret>>

(* ---------- test_problem/model_state.py: apply_precond_jacobian --------- *)

\* lines 349-354
TapCheck ==
    /\ pc = "tap_check"
    /\ IF step_logged(K_ap, step_log)
       THEN /\ pc' = "tap_load"
            /\ evs' = Append(evs, Event("skip", K_ap))
       ELSE /\ pc' = "tap_comp"
            /\ evs' = Append(evs, Event("enter", K_ap))
    /\ UNCHANGED <<cfgvars, libvars, histvars, envvars, logvars, trigger, files, submits,
                   suspended, ms_res, sigma, ret, last_exit>>

\* line 353: return ModelState(res_fname)
TapLoad ==
    /\ pc = "tap_load"
    /\ IF LoadState("precond_res.nc") = Missing
       THEN /\ EndProcess("error")
            /\ evs' = Append(evs, Event("raise", K_ap))
            /\ ret' = ret
       ELSE /\ EndProcess("complete")
            /\ evs' = Append(evs, Event("load", K_ap))
            /\ ret' = LoadState("precond_res.nc")
    /\ UNCHANGED <<cfgvars, libvars, histvars, envvars, trigger, saved_state, files, submits,
                   suspended>>

\* lines 356-372: the preconditioner is applied to a copy of self
TapComp ==
    /\ pc = "tap_comp"
    /\ ms_res' = TestPrecond(iterate)
    /\ evs' = Append(evs, Event("work", K_ap))
    /\ pc' = "tap_log"
    /\ UNCHANGED <<cfgvars, libvars, histvars, sigma, envvars, logvars, trigger, files, submits,
                   suspended, ret, last_exit>>

\* lines 374-375: log_step(fcn_complete_step)
TapLog ==
    /\ pc = "tap_log"
    /\ step_log' = log_step(K_ap, step_log)
    /\ saved_state' = log_step(K_ap, step_log)
    /\ evs' = Append(evs, Event("log", K_ap))
    /\ pc' = "tap_dump"
    /\ UNCHANGED <<cfgvars, libvars, histvars, envvars, trigger, currstep, files, submits,
                   suspended, ms_res, sigma, ret, last_exit>>

\* lines 377-378: return ms_res.dump(res_fname, caller)
TapDump ==
    /\ pc = "tap_dump"
    /\ files' = [files EXCEPT !["precond_res.nc"] = ms_res]
    /\ ret' = ms_res
    /\ evs' = Append(evs, Event("write", K_ap))
    /\ EndProcess("complete")
    /\ UNCHANGED <<cfgvars, libvars, histvars, envvars, trigger, saved_state, submits, suspended>>

(* --------------------------- the environment --------------------------- *)

\* first position of the hook sequence of a variant
Top(v) ==
    CASE v = "model" -> "jfsp_check"
      [] v = "cesm" -> "cf_pre_check"
      [] v = "test" -> "tcf_check"

\* no process has been started yet
NoSnap == [none |-> TRUE]

\* StartProcess that reads the log only when a finished job started it
StartProcess_fresh(who) ==
    /\ pc' = Top(variant)
    /\ trigger' = who
    /\ step_log' = IF who = "job" THEN load_log(saved_state) ELSE {}
    /\ currstep' = NoStep
    /\ evs' = <<>>
    /\ ms_res' = Missing
    /\ sigma' = <<>>
    /\ ret' = Missing
    /\ snap' = [log |-> load_log(saved_state), files |-> files]
    /\ seen' = IF snap = NoSnap THEN seen
               ELSE seen \cup {[snap |-> snap, evs |-> evs]}

\* a new process: the log is read from storage, nothing else is remembered
StartProcess(who) ==
    /\ pc' = Top(variant)
    /\ trigger' = who
    /\ step_log' = load_log(saved_state)
    /\ currstep' = NoStep
    /\ evs' = <<>>
    /\ ms_res' = Missing
    /\ sigma' = <<>>
    /\ ret' = Missing
    /\ snap' = [log |-> load_log(saved_state), files |-> files]
    /\ seen' = IF snap = NoSnap THEN seen
               ELSE seen \cup {[snap |-> snap, evs |-> evs]}

\* an operator starts the driver
Invoke ==
    /\ pc = "dead"
    /\ ninvoke < MaxInvoke
    /\ ninvoke' = ninvoke + 1
    /\ StartProcess("operator")
    /\ UNCHANGED <<cfgvars, libvars, jobs, reinv, ncrash, saved_state, files, submits,
                   suspended, last_exit, failed, parent_pc>>

\* a queued re-invocation (--resume) starts the driver
Reinvoke ==
    /\ pc = "dead"
    /\ reinv > 0
    /\ reinv' = reinv - 1
    /\ StartProcess("job")
    /\ UNCHANGED <<cfgvars, libvars, jobs, ninvoke, ncrash, saved_state, files, submits,
                   suspended, last_exit, failed, parent_pc>>

\* model_state.py lines 201-202: the invoker started by Popen starts the
\* driver while the process that started it has not exited yet
ReinvokeEarly ==
    /\ pc = "tcf_exit"
    /\ parent_pc = "none"
    /\ reinv > 0
    /\ reinv' = reinv - 1
    /\ parent_pc' = "tcf_exit"
    /\ StartProcess("job")
    /\ UNCHANGED <<cfgvars, libvars, jobs, ninvoke, ncrash, saved_state, files, submits,
                   suspended, last_exit, failed>>

\* model_state.py line 202: that process raises SystemExit
ParentExit ==
    /\ parent_pc = "tcf_exit"
    /\ parent_pc' = "none"
    /\ suspended' = suspended \cup {K_cf}
    /\ UNCHANGED <<cfgvars, libvars, snap, seen, failed, envvars, pc, trigger, logvars, files,
                   submits, evs, ms_res, sigma, ret, last_exit>>

\* the process is killed at an arbitrary point
Crash ==
    /\ pc # "dead"
    /\ ncrash < MaxCrash
    /\ ncrash' = ncrash + 1
    /\ EndProcess("crash")
    /\ UNCHANGED <<cfgvars, libvars, histvars, jobs, reinv, ninvoke, trigger, saved_state, files,
                   submits, suspended, evs, ret>>

\* file the external job of a variant reads, and the file it produces
JobIn(v) == IF v = "model" THEN "ext_in.nc" ELSE "tracer_ic.nc"
JobOut(v) == IF v = "model" THEN "fcn_res.nc" ELSE "restart.nc"

\* an external job finishes: it writes its output and re-invokes the driver
JobComplete ==
    /\ jobs > 0
    /\ jobs' = jobs - 1
    /\ reinv' = reinv + 1
    /\ files' = [files EXCEPT ![JobOut(variant)] = ExtResult(files[JobIn(variant)])]
    /\ UNCHANGED <<cfgvars, libvars, histvars, ninvoke, ncrash, pc, trigger, logvars, submits,
                   suspended, evs, ms_res, sigma, ret, last_exit>>

\* an external job is abandoned: no output, no re-invocation
JobAbandon ==
    /\ jobs > 0
    /\ jobs' = jobs - 1
    /\ UNCHANGED <<cfgvars, libvars, histvars, reinv, ninvoke, ncrash, pc, trigger, logvars, files,
                   submits, suspended, evs, ms_res, sigma, ret, last_exit>>

\* the command started by Popen at model.py line 250 exits with a non-zero
\* status: no output, no re-invocation; nobody waits for it
JobFail ==
    /\ variant = "model"
    /\ jobs > 0
    /\ jobs' = jobs - 1
    /\ failed' = failed \cup {K_call}
    /\ UNCHANGED <<cfgvars, libvars, snap, seen, parent_pc, reinv, ninvoke, ncrash, pc, trigger, logvars,
                   files, submits, suspended, evs, ms_res, sigma, ret, last_exit>>

\* no state: self and res outside a call
Empty == [empty |-> TRUE]

(* ----------------- model.py: mod_gram_schmidt, lin_comb ----------------- *)

\* a row of the grid holding a and b at its first two points
Row2(a, b) == [j \in 1..GridLen |-> CASE j = 1 -> a [] j = 2 -> b [] OTHER -> 0]

\* a ModelState read from a file holding the given integers over d
MsFrom(xrows, yrows, d) ==
    ModelState(<<"x", "y">>,
        <<TracerModule("x", GridLen,
              [i \in 1..Len(xrows) |->
                  [j \in 1..GridLen |-> Frac(xrows[i][j], d)]]),
          TracerModule("y", GridLen,
              [i \in 1..Len(yrows) |->
                  [j \in 1..GridLen |-> Frac(yrows[i][j], d)]])>>)

\* the states found in the files fname_fcn(quantity, j): every module of
\* each has norm 1; 1 and 2 are orthogonal, 3 and 4 are orthogonal, 1 and 3
\* are not
BasisVec(k) ==
    CASE k = 1 -> MsFrom(<<Row2(1, 0), Row2(0, 0)>>, <<Row2(1, 0)>>, 1)
      [] k = 2 -> MsFrom(<<Row2(0, 1), Row2(0, 0)>>, <<Row2(0, 1)>>, 1)
      [] k = 3 -> MsFrom(<<Row2(3, 4), Row2(0, 0)>>, <<Row2(3, 4)>>, 5)
      [] OTHER -> MsFrom(<<Row2(-4, 3), Row2(0, 0)>>, <<Row2(-4, 3)>>, 5)

BasisVecs == {BasisVec(k) : k \in 1..4}

\* the files fname_fcn(quantity, 0 .. cnt-1), cnt up to MaxBasis
Bases == UNION {[1..n -> BasisVecs] : n \in 0..MaxBasis}

\* the states mod_gram_schmidt is called on
SelfVecs ==
    {IterateOf(k) : k \in 1..MaxState}
        \cup {MsFrom(<<Row2(1, 2), Row2(3, 0)>>, <<Row2(2, 1)>>, 1)}

\* columns coeff[:, j]: one float per tracer module
CoeffCols ==
    {<<Float(1), Float(2)>>, <<Float(0), Float(-1)>>, <<Frac(1, 2), Float(3)>>}

\* a column of h_val before anything is stored in it
NoColumn == <<>>

\* line 221: h_val = np.empty(shape=(cnt_modules, cnt)), one entry per column
MgsEnter ==
    /\ kpc = "call_mgs"
    /\ h_val' = [c \in 1..Len(basis) |-> NoColumn]
    /\ i_val' = 0
    /\ kpc' = "mgs_loop"
    /\ UNCHANGED <<mainvars, newtonvars, fnvars, algvars, basis, vec, coeff, res, j_val>>


\* MgsStep that leaves self as it is
MgsStep_noupdate ==
    /\ kpc = "mgs_loop"
    /\ i_val < Len(basis)
    /\ h_val' = [h_val EXCEPT ![i_val + 1] = MsDot(vec, basis[i_val + 1])]
    /\ i_val' = i_val + 1
    /\ UNCHANGED <<mainvars, newtonvars, fnvars, algvars, kpc, basis, vec, coeff, res, j_val>>

\* lines 222-225: one pass of the loop over i_val
MgsStep ==
    /\ kpc = "mgs_loop"
    /\ i_val < Len(basis)
    /\ \E basis_i \in {basis[i_val + 1]} :
        \E h \in {MsDot(vec, basis_i)} :
            /\ h_val' = [h_val EXCEPT ![i_val + 1] = h]
            /\ vec' = MsInplace("sub", vec, MsReflected("mul", basis_i, NdArray(h)))
    /\ i_val' = i_val + 1
    /\ UNCHANGED <<mainvars, newtonvars, fnvars, algvars, kpc, basis, coeff, res, j_val>>

\* line 226: return h_val
MgsReturn ==
    /\ kpc = "mgs_loop"
    /\ i_val = Len(basis)
    /\ kpc' = "mgs_ret"
    /\ UNCHANGED <<mainvars, newtonvars, fnvars, algvars, basis, vec, h_val, i_val, coeff, res, j_val>>

\* line 282: res = coeff[:, 0] * ModelState(names, fname_fcn(quantity, 0));
\* an array without columns has no column 0
LinCombFirst ==
    /\ kpc = "call_lin_comb"
    /\ IF Len(coeff) = 0
       THEN /\ kpc' = "lc_raise"
            /\ res' = Err("IndexError")
            /\ j_val' = j_val
       ELSE /\ kpc' = "lc_loop"
            /\ res' = MsReflected("mul", basis[1], NdArray(coeff[1]))
            /\ j_val' = 1
    /\ UNCHANGED <<mainvars, newtonvars, fnvars, algvars, basis, vec, h_val, i_val, coeff>>

\* lines 283-284: one pass of the loop over j_val
LinCombStep ==
    /\ kpc = "lc_loop"
    /\ j_val < Len(coeff)
    /\ res' = MsInplace("add", res,
                        MsReflected("mul", basis[j_val + 1], NdArray(coeff[j_val + 1])))
    /\ j_val' = j_val + 1
    /\ UNCHANGED <<mainvars, newtonvars, fnvars, algvars, kpc, basis, vec, h_val, i_val, coeff>>

\* line 285: return res
LinCombReturn ==
    /\ kpc = "lc_loop"
    /\ j_val = Len(coeff)
    /\ kpc' = "lc_ret"
    /\ UNCHANGED <<mainvars, newtonvars, fnvars, algvars, basis, vec, h_val, i_val, coeff, res, j_val>>

(* ---------- model.py: the objects behind ModelState operators ----------- *)

\* The heap is a sequence of cells, an object's address is its index:
\*   [kind |-> "ms", names, arr]     a ModelState and its _tracer_modules
\*   [kind |-> "arr", elems]         a numpy array of TracerModule objects
\*   [kind |-> "tm", name, dims, vals]  a TracerModule and its _vals
\*   [kind |-> "nd", data]           a numpy array of floats

\* the cells of a new ModelState holding the value v, stored from base + 1;
\* the ModelState itself is the last of them
NewCells(base, v) ==
    [k \in 1..(2 * Len(v.mods) + 2) |->
        IF k = 2 * Len(v.mods) + 2
        THEN [kind |-> "ms", names |-> v.names, arr |-> base + k - 1]
        ELSE IF k = 2 * Len(v.mods) + 1
        THEN [kind |-> "arr", elems |-> [i \in 1..Len(v.mods) |-> base + 2 * i]]
        ELSE IF k % 2 = 1
        THEN [kind |-> "nd", data |-> v.mods[(k + 1) \div 2].vals]
        ELSE [kind |-> "tm", name |-> v.mods[k \div 2].name,
              dims |-> v.mods[k \div 2].dims, vals |-> base + k - 1]]

\* res = ModelState(names); res._tracer_modules = <a new array of new
\* TracerModule objects>: lines 45-46, 54-63 and 354-355, 363-370
Alloc(h, v) == h \o NewCells(Len(h), v)

\* the value of the ModelState at address p
Deref(h, p) ==
    ModelState(h[p].names,
        [i \in 1..Len(h[h[p].arr].elems) |->
            TracerModule(h[h[h[p].arr].elems[i]].name,
                         h[h[h[p].arr].elems[i]].dims,
                         h[h[h[h[p].arr].elems[i]].vals].data)])

\* the objects a ModelState is made of
Reach(h, p) ==
    {p, h[p].arr}
        \cup {h[h[p].arr].elems[i] : i \in 1..Len(h[h[p].arr].elems)}
        \cup {h[h[h[p].arr].elems[i]].vals : i \in 1..Len(h[h[p].arr].elems)}

\* self._tracer_modules op= ...: numpy stores the first k results, each a
\* new TracerModule, into the array that self already has (lines 77-81)
StoreElems(h, p, elems, k) ==
    [h EXCEPT ![h[p].arr].elems =
                  [i \in 1..Len(@) |-> IF i <= k THEN Len(h) + 2 * i ELSE @[i]]]
        \o [c \in 1..(2 * k) |->
               IF c % 2 = 1
               THEN [kind |-> "nd", data |-> elems[(c + 1) \div 2].vals]
               ELSE [kind |-> "tm", name |-> elems[c \div 2].name,
                     dims |-> elems[c \div 2].dims, vals |-> Len(h) + c - 1]]

\* the number of elements computed before the first exception
DoneBefore(elems) ==
    IF AnyErr(elems)
    THEN (CHOOSE i \in 1..Len(elems) :
              IsErr(elems[i]) /\ \A j \in 1..(i - 1) : ~IsErr(elems[j])) - 1
    ELSE Len(elems)

\* the states read from files that the operators are applied to: two of the
\* same names and grid, one with module x only, one with module y only, one
\* on a longer grid, one whose module y is on a longer grid
Sample(k) ==
    CASE k = 1 -> MsFrom(<<Row2(1, 2), Row2(3, 0)>>, <<Row2(2, 1)>>, 1)
      [] k = 2 -> MsFrom(<<Row2(2, -1), Row2(1, 4)>>, <<Row2(1, 2)>>, 2)
      [] k = 3 -> ModelState(<<"x">>, <<TmOf("x", <<Row2(1, 1), Row2(2, 0)>>)>>)
      [] k = 4 -> ModelState(<<"y">>, <<TmOf("y", <<Row2(3, 1)>>)>>)
      [] k = 5 -> ModelState(<<"x", "y">>,
                     <<TmOf("x", <<Row2(1, 0) \o <<1>>, Row2(0, 1) \o <<1>>>>),
                       TmOf("y", <<Row2(1, 1) \o <<1>>>>)>>)
      [] OTHER -> ModelState(<<"x", "y">>,
                     <<TmOf("x", <<Row2(1, 0), Row2(0, 1)>>),
                       TmOf("y", <<Row2(1, 1) \o <<1>>>>)>>)

SampleIds == 1..6

\* the other operand: the ModelState at rhs, a float, or an array of one
\* float per tracer module
Others ==
    {[ms |-> rhs], PyFloat(Float(2)), NdArray(<<Float(2), Frac(1, 2)>>)}

OtherVal(o) == IF "ms" \in DOMAIN o THEN Deref(heap, o.ms) ELSE o

OtherKind(o) ==
    IF "ms" \in DOMAIN o THEN "ModelState"
    ELSE IF IsFloat(o) THEN "float" ELSE "ndarray"

BinOps == {"add", "sub", "mul", "div"}

\* the operator returns a new ModelState holding v, or raises
Returns(v, fn, op, o) ==
    /\ nops < MaxOps
    /\ nops' = nops + 1
    /\ last' = [fn |-> fn, op |-> op, other |-> o]
    /\ IF IsErr(v)
       THEN /\ out' = v
            /\ heap' = heap
       ELSE /\ out' = [addr |-> Len(heap) + 2 * Len(v.mods) + 2]
            /\ heap' = Alloc(heap, v)
    /\ UNCHANGED <<mainvars, newtonvars, fnvars, krylovvars, lhs, rhs>>

\* lines 40-47: -self
AlgNeg == Returns(MsNeg(Deref(heap, lhs)), "neg", "neg", "none")


\* AlgBinary that computes into self and returns self
AlgBinary_alias ==
    \E op \in BinOps : \E o \in Others :
        \E v \in {MsBinary(op, Deref(heap, lhs), OtherVal(o))} :
            /\ nops < MaxOps
            /\ nops' = nops + 1
            /\ last' = [fn |-> "binary", op |-> op, other |-> OtherKind(o)]
            /\ IF IsErr(v) \/ Len(v.mods) # Len(Deref(heap, lhs).mods)
               THEN /\ out' = Err("ValueError")
                    /\ heap' = heap
               ELSE /\ out' = [addr |-> lhs]
                    /\ heap' = StoreElems(heap, lhs, v.mods, Len(v.mods))
            /\ UNCHANGED <<mainvars, newtonvars, fnvars, krylovvars, lhs, rhs>>

\* lines 49-63, 87-101, 118-132, 156-170: self op other
AlgBinary ==
    \E op \in BinOps : \E o \in Others :
        Returns(MsBinary(op, Deref(heap, lhs), OtherVal(o)), "binary", op,
                OtherKind(o))

\* lines 65-70, 134-139, 172-184: other op self, other not a ModelState
AlgReflected ==
    \E op \in BinOps : \E o \in Others \ {[ms |-> rhs]} :
        Returns(MsReflected(op, Deref(heap, lhs), o), "reflected", op,
                OtherKind(o))

\* lines 72-85, 103-116, 141-154, 186-199: self op= other; the elements
\* computed before an exception stay in self._tracer_modules
AlgInplace ==
    \E op \in BinOps : \E o \in Others :
        \E a \in {Deref(heap, lhs)} : \E b \in {OtherVal(o)} :
            \E v \in {MsInplace(op, a, b)} :
                /\ nops < MaxOps
                /\ nops' = nops + 1
                /\ last' = [fn |-> "inplace", op |-> op, other |-> OtherKind(o)]
                /\ IF ~IsErr(v)
                   THEN /\ out' = [addr |-> lhs]
                        /\ heap' = StoreElems(heap, lhs, v.mods, Len(v.mods))
                   ELSE /\ out' = v
                        /\ heap' =
                             IF IsMs(b) /\ Len(b.mods) \in {1, Len(a.mods)}
                             THEN StoreElems(heap, lhs,
                                      ElemsMs(op, a.mods, b.mods),
                                      DoneBefore(ElemsMs(op, a.mods, b.mods)))
                             ELSE heap
                /\ UNCHANGED <<mainvars, newtonvars, fnvars, krylovvars, lhs, rhs>>

\* lines 201-206: self.dot(other)
AlgDot ==
    /\ nops < MaxOps
    /\ nops' = nops + 1
    /\ last' = [fn |-> "dot", op |-> "dot", other |-> "ModelState"]
    /\ \E a \in {Deref(heap, lhs)} : \E b \in {Deref(heap, rhs)} :
        out' = IF \E i \in 1..Len(a.names) : i > Len(b.mods)
               THEN Err("IndexError")
               ELSE IF ~MsDotOk(a, b) THEN Err("ValueError")
               ELSE NdArray(MsDot(a, b))
    /\ UNCHANGED <<mainvars, newtonvars, fnvars, krylovvars, heap, lhs, rhs>>

(* ------------------- NewtonDriver: the outer iteration ------------------ *)

\* The driver works on the variables of the hooks: iterate is x_n, fcn is
\* F(x_n), direction is the Krylov basis vector, ret is what
\* comp_jacobian_fcn_state_prod returned, and fcn_res.nc holds the residual
\* at the perturbed state.

\* the starting iterate: all-zero (scenario A), then along the first grid
\* point in both modules, then module x already at the target
NewtonStart(k) ==
    CASE k = 1 -> MsOf(<<GridRow(0), GridRow(0)>>, <<GridRow(0)>>)
      [] k = 2 -> MsOf(<<GridRow(1), GridRow(0)>>, <<GridRow(4)>>)
      [] OTHER -> MsOf(<<GridRow(3 * k - 5), GridRow(0)>>, <<GridRow(3 * k - 5)>>)

\* the residual is evaluated by an external job: the process exits
NEvalSubmit ==
    /\ nstate = "EVALUATE_RESIDUAL"
    /\ fcn = Empty
    /\ njob = "none"
    /\ njob' = "fcn"
    /\ UNCHANGED <<procvars, krylovvars, algvars, fnvars, histvars, variant, batch_cmd_precond, reinvoke, cmd,
                   iterate, direction, fcn, files, ret, nstate, iter, nstep,
                   newton_max_iter, x_0>>

\* the job finishes, writes its result and re-invokes the driver
NJobComplete ==
    /\ njob # "none"
    /\ njob' = "none"
    /\ IF njob = "fcn"
       THEN /\ fcn' = ExtResult(iterate)
            /\ files' = files
       ELSE /\ files' = [files EXCEPT !["fcn_res.nc"] = ExtResult(files["ext_in.nc"])]
            /\ fcn' = fcn
    /\ UNCHANGED <<procvars, krylovvars, algvars, fnvars, histvars, variant, batch_cmd_precond, reinvoke, cmd,
                   iterate, direction, ret, nstate, iter, nstep, newton_max_iter, x_0>>


\* NEvalDone that never gives up
NEvalDone_nocap ==
    /\ nstate = "EVALUATE_RESIDUAL"
    /\ fcn # Empty
    /\ njob = "none"
    /\ nstate' = IF converged(fcn) THEN "CONVERGED" ELSE "BUILD_KRYLOV_BASIS"
    /\ UNCHANGED <<procvars, krylovvars, algvars, fnvars, histvars, variant, batch_cmd_precond, reinvoke, cmd,
                   iterate, direction, fcn, files, ret, iter, nstep, njob,
                   newton_max_iter, x_0>>

\* F(x_n) is there: converged, out of iterations, or one more iteration
NEvalDone ==
    /\ nstate = "EVALUATE_RESIDUAL"
    /\ fcn # Empty
    /\ njob = "none"
    /\ nstate' = IF converged(fcn) THEN "CONVERGED"
                 ELSE IF iter >= newton_max_iter THEN "FAILED"
                 ELSE "BUILD_KRYLOV_BASIS"
    /\ UNCHANGED <<procvars, krylovvars, algvars, fnvars, histvars, variant, batch_cmd_precond, reinvoke, cmd,
                   iterate, direction, fcn, files, ret, iter, nstep, njob,
                   newton_max_iter, x_0>>

\* the first Krylov basis vector: -F(x_n), normalised per module
NKrylovDirection ==
    /\ nstate = "BUILD_KRYLOV_BASIS"
    /\ direction = Empty
    /\ \E r \in {MsNeg(fcn)} : \E beta \in {MsNorm(fcn)} :
        direction' = MsBinary("div", r, NdArray(beta))
    /\ UNCHANGED <<procvars, krylovvars, algvars, fnvars, histvars, variant, batch_cmd_precond, reinvoke, cmd,
                   iterate, fcn, files, ret, nstate, iter, nstep, njob,
                   newton_max_iter, x_0>>

\* model.py lines 267-274 and 248-256: the perturbed state is written, the
\* job is submitted, the process exits
NKrylovSubmit ==
    /\ nstate = "BUILD_KRYLOV_BASIS"
    /\ direction # Empty
    /\ files["fcn_res.nc"] = Missing
    /\ njob = "none"
    /\ \E sg \in {Sigma(iterate)} :
        files' = [files EXCEPT !["ext_in.nc"] = Perturbed(iterate, sg)]
    /\ njob' = "jvp"
    /\ UNCHANGED <<procvars, krylovvars, algvars, fnvars, histvars, variant, batch_cmd_precond, reinvoke, cmd,
                   iterate, direction, fcn, ret, nstate, iter, nstep,
                   newton_max_iter, x_0>>

\* model.py line 278: the finite difference, from fcn_res.nc
NKrylovDone ==
    /\ nstate = "BUILD_KRYLOV_BASIS"
    /\ direction # Empty
    /\ files["fcn_res.nc"] # Missing
    /\ njob = "none"
    /\ \E sg \in {Sigma(iterate)} :
        ret' = FiniteDiff(files["fcn_res.nc"], fcn, sg)
    /\ nstate' = "APPLY_PRECONDITIONER"
    /\ UNCHANGED <<procvars, krylovvars, algvars, fnvars, histvars, variant, batch_cmd_precond, reinvoke, cmd,
                   iterate, direction, fcn, files, iter, nstep, njob,
                   newton_max_iter, x_0>>

\* the linear solve in the one-dimensional Krylov space, the preconditioner
\* being the identity: step = (|F(x_n)| / h) * direction, h = dot(J v, v)
NPrecond ==
    /\ nstate = "APPLY_PRECONDITIONER"
    /\ \E h \in {MsDot(ret, direction)} : \E beta \in {MsNorm(fcn)} :
        \E y \in {[i \in 1..Len(h) |-> FDiv(beta[i], h[i])]} :
            nstep' = MsReflected("mul", direction, NdArray(y))
    /\ nstate' = "UPDATE_STATE"
    /\ UNCHANGED <<procvars, krylovvars, algvars, fnvars, histvars, variant, batch_cmd_precond, reinvoke, cmd,
                   iterate, direction, fcn, files, ret, iter, njob,
                   newton_max_iter, x_0>>

\* x_{n+1} = x_n + step; the evaluations of the next iteration are new steps
NUpdate ==
    /\ nstate = "UPDATE_STATE"
    /\ iter < MaxNewtonIter
    /\ iterate' = MsBinary("add", iterate, nstep)
    /\ iter' = iter + 1
    /\ fcn' = Empty
    /\ direction' = Empty
    /\ ret' = Missing
    /\ nstep' = Empty
    /\ files' = [files EXCEPT !["ext_in.nc"] = Missing, !["fcn_res.nc"] = Missing]
    /\ nstate' = "EVALUATE_RESIDUAL"
    /\ UNCHANGED <<procvars, krylovvars, algvars, fnvars, histvars, variant, batch_cmd_precond, reinvoke, cmd,
                   njob, newton_max_iter, x_0>>

(* ------------------ model.py: the operators in floats ------------------- *)

\* every entry of a TracerModule or a ModelState rounded: what each numpy
\* operation on _vals stores
RoundTm(tm) ==
    TracerModule(tm.name, tm.dims,
                 [i \in 1..Len(tm.vals) |->
                     [j \in 1..Len(tm.vals[1]) |-> Round(tm.vals[i][j])]])

RoundMs(v) ==
    IF IsErr(v) THEN v
    ELSE ModelState(v.names, [i \in 1..Len(v.mods) |-> RoundTm(v.mods[i])])

\* lines 49-63, 87-101, 118-132, 156-170: self op other in floats.  Line 163
\* computes 1.0 / other first and multiplies every entry by it.
MsBinaryRounded(op, self, other) ==
    IF op = "div" /\ IsFloat(other) /\ other.float # Float(0)
    THEN RoundMs(MsBinary("mul", self, PyFloat(Round(FRecip(other.float)))))
    ELSE RoundMs(MsBinary(op, self, other))

\* the sum of the products, accumulated entry by entry
RECURSIVE SumRounded(_, _)
SumRounded(acc, s) ==
    IF s = <<>> THEN acc
    ELSE SumRounded(ROp("add", acc, Round(Head(s))), Tail(s))

\* lines 485-492 in floats
TmDotRounded(self, other) ==
    SumRounded(Float(0), Flatten(ArrBin("mul", self.vals, other.vals)))

\* lines 201-206 in floats
MsDotRounded(self, other) ==
    [i \in 1..Len(self.names) |-> TmDotRounded(self.mods[i], other.mods[i])]

\* the k-th float that has a mantissa of three bits: 4, 5, 6, 7, 8, 10, ..
FloatVal(k) == (4 + (k % 4)) * Pow2(k \div 4)

\* the k-th state of floats, a row of the grid per variable
FloatState(k) ==
    MsOf(<<[j \in 1..GridLen |-> FloatVal(k + j)],
           [j \in 1..GridLen |-> FloatVal(2 * k + j)]>>,
         <<[j \in 1..GridLen |-> IF j = 1 THEN FloatVal(k + 3) ELSE 1]>>)

FloatStates == {FloatState(k) : k \in 1..MaxFloat}

\* the Python floats c
FloatScalars == {Float(FloatVal(k)) : k \in 0..3}

\* t = a + b
FlAdd ==
    /\ fn_pc = "call"
    /\ fn_tmp' = MsBinaryRounded("add", fn_args.a, fn_args.b)
    /\ fn_pc' = "added"
    /\ UNCHANGED <<mainvars, krylovvars, algvars, newtonvars, fn_args, fn_ret>>

\* t - a
FlSub_self ==
    /\ fn_pc = "added"
    /\ fn_ret' = MsBinaryRounded("sub", fn_tmp, fn_args.a)
    /\ fn_pc' = "add_sub"
    /\ UNCHANGED <<mainvars, krylovvars, algvars, newtonvars, fn_args, fn_tmp>>

\* t - b
FlSub ==
    /\ fn_pc = "added"
    /\ fn_ret' = MsBinaryRounded("sub", fn_tmp, fn_args.b)
    /\ fn_pc' = "add_sub"
    /\ UNCHANGED <<mainvars, krylovvars, algvars, newtonvars, fn_args, fn_tmp>>

\* t = a * c
FlMul ==
    /\ fn_pc = "call"
    /\ fn_tmp' = MsBinaryRounded("mul", fn_args.a, PyFloat(fn_args.c))
    /\ fn_pc' = "multiplied"
    /\ UNCHANGED <<mainvars, krylovvars, algvars, newtonvars, fn_args, fn_ret>>

\* t / c
FlDiv ==
    /\ fn_pc = "multiplied"
    /\ fn_ret' = MsBinaryRounded("div", fn_tmp, PyFloat(fn_args.c))
    /\ fn_pc' = "mul_div"
    /\ UNCHANGED <<mainvars, krylovvars, algvars, newtonvars, fn_args, fn_tmp>>

\* a.dot(b) and b.dot(a)
FlDot ==
    /\ fn_pc = "call"
    /\ fn_tmp' = MsDotRounded(fn_args.a, fn_args.b)
    /\ fn_ret' = MsDotRounded(fn_args.b, fn_args.a)
    /\ fn_pc' = "dots"
    /\ UNCHANGED <<mainvars, krylovvars, algvars, newtonvars, fn_args>>

(* ---------------- model.py, newton_fcn_cesm_pop.py: dump and load ------- *)

\* A netCDF file holds dimensions (name -> size, 0 when not defined) and
\* variables (name -> dimension names and data, NoVar when not defined).  A
\* variable name is a tracer name and a suffix.  The grid has the one
\* dimension "z".

NoVar == [novar |-> TRUE]

VarKeys == {<<v, sfx>> : v \in {"x1", "x2", "y"}, sfx \in {"", "_CUR", "_OLD"}}

NewDataset == [dims |-> [d \in {"z"} |-> 0], vars |-> [k \in VarKeys |-> NoVar]]

\* what createVariable fills a new variable with
NcFill == Float(Pow2(MaxExp))

\* model.py writes each tracer under its name; cesm_pop lines 116-123 write
\* it under the suffixes _CUR and _OLD, and lines 78 and 99 read _CUR
Suffixes(v) == IF v = "cesm" THEN {"_CUR", "_OLD"} ELSE {""}

ReadSuffix(v) == IF v = "cesm" THEN "_CUR" ELSE ""

\* the index of a tracer among the variables of its module
VarInd(tm, name) ==
    CHOOSE i \in 1..Len(ModuleVarnames[tm.name]) : ModuleVarnames[tm.name][i] = name

OwnKeys(tm, v) ==
    {k \in VarKeys : /\ \E i \in 1..Len(ModuleVarnames[tm.name]) :
                            ModuleVarnames[tm.name][i] = k[1]
                     /\ k[2] \in Suffixes(v)}

\* a float stored in a variable of type 'f4'
StoreF8_single(x) == RoundTo(Prec - 1, x)

\* a float stored in a variable of type 'f8'
StoreF8(x) == RoundTo(Prec, x)

\* lines 330-341 (cesm_pop 110-118): dump(fptr, 'define')
TmDefine(fptr, tm, v) ==
    IF fptr.dims["z"] \notin {0, tm.dims} THEN Err("ValueError")
    ELSE [dims |-> [fptr.dims EXCEPT !["z"] = tm.dims],
          vars |-> [k \in VarKeys |->
                       IF k \in OwnKeys(tm, v)
                       THEN [dimensions |-> <<"z">>,
                             data |-> [j \in 1..tm.dims |-> NcFill]]
                       ELSE fptr.vars[k]]]

\* lines 342-344 (cesm_pop 119-123): dump(fptr, 'write')
TmWrite(fptr, tm, v) ==
    [fptr EXCEPT !.vars =
        [k \in VarKeys |->
            IF k \in OwnKeys(tm, v)
            THEN [fptr.vars[k] EXCEPT !.data =
                     [j \in 1..tm.dims |-> StoreF8(tm.vals[VarInd(tm, k[1])][j])]]
            ELSE fptr.vars[k]]]

\* lines 300-326 (cesm_pop 71-103): TracerModule(name, vals_fname=..)
TmRead(fptr, name, v) ==
    LET names == ModuleVarnames[name]
        dimnames0 == fptr.vars[<<names[1], ReadSuffix(v)>>].dimensions
        size == fptr.dims[dimnames0[1]]
    IN  IF \E i \in 1..Len(names) :
               fptr.vars[<<names[i], ReadSuffix(v)>>].dimensions # dimnames0
        THEN Err("ValueError")
        ELSE TracerModule(name, size,
                 [i \in 1..Len(names) |->
                     [j \in 1..size |-> fptr.vars[<<names[i], ReadSuffix(v)>>].data[j]]])

\* a state with entries that are not finite
SpecialRow(a, b) ==
    [j \in 1..GridLen |-> CASE j = 1 -> a [] j = 2 -> b [] OTHER -> Float(0)]

SpecialState ==
    ModelState(<<"x", "y">>,
        <<TracerModule("x", GridLen,
              <<SpecialRow(NaN, Inf), SpecialRow(FNeg(Inf), Float(0))>>),
          TracerModule("y", GridLen, <<SpecialRow(Float(1), NaN)>>)>>)

\* the states that are dumped
DumpStates ==
    FloatStates \cup {MsNeg(s) : s \in FloatStates} \cup {SpecialState}

\* lines 22-28: the 'define' pass of dump, one module at a time
DumpDefine ==
    /\ fn_pc = "define"
    /\ \E tm \in {fn_args.self.mods[fn_tmp.ind]} :
        \E f \in {TmDefine(fn_tmp.fptr, tm, fn_args.variant)} :
            IF IsErr(f)
            THEN /\ fn_ret' = f
                 /\ fn_pc' = "raised"
                 /\ fn_tmp' = fn_tmp
            ELSE /\ fn_ret' = fn_ret
                 /\ fn_pc' = IF fn_tmp.ind = Len(fn_args.self.mods) THEN "write"
                             ELSE "define"
                 /\ fn_tmp' = [fn_tmp EXCEPT
                                 !.fptr = f,
                                 !.ind = IF fn_tmp.ind = Len(fn_args.self.mods) THEN 1
                                         ELSE fn_tmp.ind + 1]
    /\ UNCHANGED <<mainvars, krylovvars, algvars, newtonvars, fn_args>>

\* lines 22-28: the 'write' pass
DumpWrite ==
    /\ fn_pc = "write"
    /\ \E tm \in {fn_args.self.mods[fn_tmp.ind]} :
        fn_tmp' = [fn_tmp EXCEPT
                      !.fptr = TmWrite(fn_tmp.fptr, tm, fn_args.variant),
                      !.ind = IF fn_tmp.ind = Len(fn_args.self.mods) THEN 1
                              ELSE fn_tmp.ind + 1]
    /\ fn_pc' = IF fn_tmp.ind = Len(fn_args.self.mods) THEN "load" ELSE "write"
    /\ UNCHANGED <<mainvars, krylovvars, algvars, newtonvars, fn_args, fn_ret>>

\* lines 13-20: ModelState(names, vals_fname), one module at a time
DumpLoad ==
    /\ fn_pc = "load"
    /\ \E tm \in {TmRead(fn_tmp.fptr, fn_args.self.names[fn_tmp.ind],
                         fn_args.variant)} :
        IF IsErr(tm)
        THEN /\ fn_ret' = tm
             /\ fn_pc' = "raised"
             /\ fn_tmp' = fn_tmp
        ELSE /\ fn_tmp' = [fn_tmp EXCEPT !.mods = Append(fn_tmp.mods, tm),
                                         !.ind = fn_tmp.ind + 1]
             /\ IF fn_tmp.ind = Len(fn_args.self.names)
                THEN /\ fn_ret' = ModelState(fn_args.self.names, fn_tmp'.mods)
                     /\ fn_pc' = "loaded"
                ELSE /\ fn_ret' = fn_ret
                     /\ fn_pc' = "load"
    /\ UNCHANGED <<mainvars, krylovvars, algvars, newtonvars, fn_args>>

(* ------------------- share.py: common_args, read_cfg_file --------------- *)

\* None, and a key that a mapping does not have
None == [none |-> TRUE]

Absent == [absent |-> TRUE]

\* a value that is a string, and one that is a list of names
Str(s) == [str |-> s]

Names(S) == [names |-> S]

\* lines 11-24: cfg_override_args, in the order of the dictionary
OverrideArgs ==
    <<[argname |-> "workdir", section |-> "DEFAULT", var |-> "workdir",
       action |-> "store", model_name |-> "any", val |-> ""],
      [argname |-> "logging_level", section |-> "solverinfo", var |-> "logging_level",
       action |-> "store", model_name |-> "any", val |-> ""],
      [argname |-> "newton_max_iter", section |-> "solverinfo", var |-> "newton_max_iter",
       action |-> "store", model_name |-> "any", val |-> ""],
      [argname |-> "newton_rel_tol", section |-> "solverinfo", var |-> "newton_rel_tol",
       action |-> "store", model_name |-> "any", val |-> ""],
      [argname |-> "tracer_module_names", section |-> "modelinfo",
       var |-> "tracer_module_names", action |-> "store", model_name |-> "any",
       val |-> ""],
      [argname |-> "persist", section |-> "modelinfo", var |-> "reinvoke",
       action |-> "store_true", model_name |-> "test_problem", val |-> "False"]>>

ArgNames == {OverrideArgs[i].argname : i \in 1..Len(OverrideArgs)}

CfgSections == {"DEFAULT", "solverinfo", "modelinfo"}

CfgNames ==
    {"workdir", "logging_level", "newton_max_iter", "newton_rel_tol", "cfg_out_fname",
     "no_value_allowed", "tracer_module_names", "reinvoke"}

\* lines 27-60: the options of the parser, with their defaults; an option
\* that is specific to another model is not added
common_args(model_name) ==
    [a \in ArgNames |->
        LET m == CHOOSE i \in 1..Len(OverrideArgs) : OverrideArgs[i].argname = a
        IN  IF OverrideArgs[m].model_name \notin {"any", model_name} THEN Absent
            ELSE IF OverrideArgs[m].action = "store" THEN None
            ELSE [bool |-> FALSE]]

\* parse_args that returns the defaults, whatever the command line
parse_args_defaults(parser, argv) == parser

\* parser.parse_args(argv): the options of argv replace the defaults
parse_args(parser, argv) ==
    [a \in ArgNames |-> IF argv[a] # Absent THEN argv[a] ELSE parser[a]]

\* config[section][name]: a name of DEFAULT is seen in every section
CfgGet(config, section, name) ==
    IF config[section][name] # Absent THEN config[section][name]
    ELSE config["DEFAULT"][name]

\* lines 87-98: only the names of no_value_allowed may have no value
NoValueError(config) ==
    \E section \in CfgSections \ {"DEFAULT"} : \E name \in CfgNames :
        /\ config[section] # Absent
        /\ CfgGet(config, section, name) = None
        /\ name \notin {"no_value_allowed"} \cup
               (IF CfgGet(config, "DEFAULT", "no_value_allowed") \in {None, Absent}
                THEN {}
                ELSE CfgGet(config, "DEFAULT", "no_value_allowed").names)

\* lines 100-114: the arguments that override the cfg file, one at a time
RECURSIVE ApplyOverrides(_, _, _)
ApplyOverrides(config, args, i) ==
    IF i > Len(OverrideArgs) \/ IsErr(config) THEN config
    ELSE LET m == OverrideArgs[i]
         IN  IF args[m.argname] = Absent THEN ApplyOverrides(config, args, i + 1)
             ELSE IF config[m.section] = Absent THEN Err("KeyError")
             ELSE IF CfgGet(config, m.section, m.var) = Absent THEN Err("ValueError")
             ELSE IF m.action = "store" /\ args[m.argname] # None
                  THEN ApplyOverrides(
                           [config EXCEPT ![m.section][m.var] = args[m.argname]],
                           args, i + 1)
             ELSE IF m.action = "store_true" /\ args[m.argname].bool
                  THEN ApplyOverrides(
                           [config EXCEPT ![m.section][m.var] = Str(m.val)], args, i + 1)
             ELSE ApplyOverrides(config, args, i + 1)

\* lines 76-123
read_cfg_file(args, file) ==
    IF NoValueError(file) THEN Err("ValueError")
    ELSE LET config == ApplyOverrides(file, args, 1)
         IN  IF IsErr(config) THEN config
             ELSE IF config["solverinfo"] = Absent THEN Err("KeyError")
             ELSE IF CfgGet(config, "solverinfo", "cfg_out_fname") = Absent
                  THEN Err("KeyError")
             ELSE config

\* the cfg files: with or without the section modelinfo, the name reinvoke and
\* a value of newton_rel_tol
CfgFile(has_modelinfo, has_reinvoke, has_tol) ==
    [s \in CfgSections |->
        CASE s = "DEFAULT" ->
               [n \in CfgNames |->
                   CASE n = "workdir" -> Str("work")
                     [] n = "no_value_allowed" -> Names({"cfg_out_fname"})
                     [] OTHER -> Absent]
          [] s = "solverinfo" ->
               [n \in CfgNames |->
                   CASE n = "logging_level" -> Str("INFO")
                     [] n = "newton_max_iter" -> Str("3")
                     [] n = "newton_rel_tol" -> IF has_tol THEN Str("1.0e-8") ELSE None
                     [] n = "cfg_out_fname" -> None
                     [] OTHER -> Absent]
          [] s = "modelinfo" ->
               IF ~has_modelinfo THEN Absent
               ELSE [n \in CfgNames |->
                        CASE n = "tracer_module_names" -> Str("x,y")
                          [] n = "reinvoke" -> IF has_reinvoke THEN Str("True") ELSE Absent
                          [] OTHER -> Absent]]

CfgFiles == {CfgFile(m, r, t) : m \in BOOLEAN, r \in BOOLEAN, t \in BOOLEAN}

\* the command lines: options that are given, Absent for the others
Argvs(model_name) ==
    {[a \in ArgNames |->
         CASE a = "newton_max_iter" -> n
           [] a = "tracer_module_names" -> t
           [] a = "persist" -> p
           [] OTHER -> Absent] :
     n \in {Absent, Str("5")}, t \in {Absent, Str("x")},
     p \in (IF model_name = "test_problem" THEN {Absent, [bool |-> TRUE]} ELSE {Absent})}

\* model_state.py line 30 (share.py lines 27-60): the arguments are parsed
CfgParse ==
    /\ fn_pc = "parse"
    /\ fn_tmp' = [fn_tmp EXCEPT
                     !.args = parse_args(common_args(fn_args.model_name), fn_args.argv)]
    /\ fn_pc' = "read"
    /\ UNCHANGED <<mainvars, krylovvars, algvars, newtonvars, fn_args, fn_ret>>

\* model_state.py line 59, setup_solver.py line 52: config = read_cfg_file(args)
CfgRead ==
    /\ fn_pc = "read"
    /\ \E config \in {read_cfg_file(fn_tmp.args, fn_args.file)} :
        IF IsErr(config)
        THEN /\ fn_ret' = config
             /\ fn_pc' = "raised"
             /\ fn_tmp' = fn_tmp
        ELSE /\ fn_ret' = fn_ret
             /\ fn_pc' = "construct"
             /\ fn_tmp' = [fn_tmp EXCEPT !.config = config]
    /\ UNCHANGED <<mainvars, krylovvars, algvars, newtonvars, fn_args>>

\* ModelConfig(..) that keeps the object to itself
CfgConstruct_local ==
    /\ fn_pc = "construct"
    /\ IF fn_tmp.config["modelinfo"] = Absent
       THEN /\ fn_ret' = Err("KeyError")
            /\ fn_pc' = "raised"
            /\ fn_tmp' = fn_tmp
       ELSE /\ fn_ret' = [modelinfo |-> fn_tmp.config["modelinfo"]]
            /\ fn_pc' = "constructed"
            /\ fn_tmp' = fn_tmp
    /\ UNCHANGED <<mainvars, krylovvars, algvars, newtonvars, fn_args>>

\* model_state.py line 73, setup_solver.py line 85: ModelConfig(config["modelinfo"])
\* stores the new object in the module variable model_config_obj
CfgConstruct ==
    /\ fn_pc = "construct"
    /\ IF fn_tmp.config["modelinfo"] = Absent
       THEN /\ fn_ret' = Err("KeyError")
            /\ fn_pc' = "raised"
            /\ fn_tmp' = fn_tmp
       ELSE /\ fn_ret' = [modelinfo |-> fn_tmp.config["modelinfo"]]
            /\ fn_pc' = "constructed"
            /\ fn_tmp' = [fn_tmp EXCEPT !.model_config_obj =
                             [modelinfo |-> fn_tmp.config["modelinfo"]]]
    /\ UNCHANGED <<mainvars, krylovvars, algvars, newtonvars, fn_args>>

(* ------------------- model.py: TracerModule.__init__ -------------------- *)

\* the file that dumping the state s gives (lines 22-28)
DumpedFile(s) ==
    LET defined == TmDefine(TmDefine(NewDataset, s.mods[1], "model"), s.mods[2], "model")
    IN  TmWrite(TmWrite(defined, s.mods[1], "model"), s.mods[2], "model")

\* what is passed as dims and as vals_fname: None, or a dictionary of
\* dimensions, or the name of a file
CtorDims == {None} \cup {[z |-> n] : n \in 1..GridLen}

CtorFiles == {None} \cup {[fname |-> DumpedFile(s)] : s \in FloatStates}

\* line 297, "dims is None != vals_fname is None": the comparisons are
\* chained, a is None != b is None being
\* (a is None) and (None != b) and (b is None)
ChainedIsNoneNe(a, b) == (a = None) /\ (None # b) /\ (b = None)

\* lines 293-296: the name, and the names of the tracers
CtorName ==
    /\ fn_pc = "call"
    /\ IF fn_args.name \in DOMAIN ModuleVarnames
       THEN /\ fn_tmp' = [fn_tmp EXCEPT !.name = Str(fn_args.name),
                                        !.varnames = ModuleVarnames[fn_args.name]]
            /\ fn_pc' = "check"
            /\ fn_ret' = fn_ret
       ELSE /\ fn_tmp' = fn_tmp
            /\ fn_pc' = "raised"
            /\ fn_ret' = Err("KeyError")
    /\ UNCHANGED <<mainvars, krylovvars, algvars, newtonvars, fn_args>>

\* lines 297-298: the test of the arguments
CtorCheck ==
    /\ fn_pc = "check"
    /\ IF ChainedIsNoneNe(fn_args.dims, fn_args.vals_fname)
       THEN /\ fn_pc' = "raised"
            /\ fn_ret' = Err("ValueError")
       ELSE /\ fn_pc' = "dims"
            /\ fn_ret' = fn_ret
    /\ UNCHANGED <<mainvars, krylovvars, algvars, newtonvars, fn_args, fn_tmp>>

\* lines 299-300: if not dims is None: self._dims = dims
CtorSetDims ==
    /\ fn_pc = "dims"
    /\ fn_tmp' = IF fn_args.dims # None THEN [fn_tmp EXCEPT !.dims = fn_args.dims]
                 ELSE fn_tmp
    /\ fn_pc' = "vals"
    /\ UNCHANGED <<mainvars, krylovvars, algvars, newtonvars, fn_args, fn_ret>>

\* lines 301-326: if not vals_fname is None: the dimensions and the values
\* are read from the file
CtorRead ==
    /\ fn_pc = "vals"
    /\ IF fn_args.vals_fname = None
       THEN /\ fn_tmp' = fn_tmp
            /\ fn_pc' = "constructed"
            /\ fn_ret' = fn_tmp
       ELSE \E tm \in {TmRead(fn_args.vals_fname.fname, fn_args.name, "model")} :
               IF IsErr(tm)
               THEN /\ fn_tmp' = fn_tmp
                    /\ fn_pc' = "raised"
                    /\ fn_ret' = tm
               ELSE /\ fn_tmp' = [fn_tmp EXCEPT !.dims = [z |-> tm.dims],
                                                !.vals = [vals |-> tm.vals]]
                    /\ fn_pc' = "constructed"
                    /\ fn_ret' = fn_tmp'
    /\ UNCHANGED <<mainvars, krylovvars, algvars, newtonvars, fn_args>>

(* --------------------------- specification ----------------------------- *)

\* mod_gram_schmidt and lin_comb are not being called
KrylovIdle ==
    /\ kpc = "idle"
    /\ basis = <<>>
    /\ vec = Empty
    /\ h_val = <<>>
    /\ i_val = 0
    /\ coeff = <<>>
    /\ res = Empty
    /\ j_val = 0

\* no operator is being called
AlgIdle ==
    /\ heap = <<>>
    /\ lhs = 0
    /\ rhs = 0
    /\ out = Empty
    /\ last = [fn |-> "none", op |-> "none", other |-> "none"]
    /\ nops = 0

\* no Newton solve is being run
NewtonIdle ==
    /\ nstate = "idle"
    /\ iter = 0
    /\ nstep = Empty
    /\ njob = "none"
    /\ newton_max_iter = 0
    /\ x_0 = Empty

\* no function is being called on its own
FnIdle ==
    /\ fn_pc = "idle"
    /\ fn_args = Empty
    /\ fn_tmp = Empty
    /\ fn_ret = Empty

LibIdle == KrylovIdle /\ AlgIdle /\ NewtonIdle /\ FnIdle

Init ==
    /\ variant \in Variants
    /\ batch_cmd_precond \in (IF variant = "cesm" THEN BOOLEAN ELSE {FALSE})
    /\ reinvoke \in (IF variant = "test" THEN BOOLEAN ELSE {FALSE})
    /\ cmd \in (IF variant = "test" THEN {"driver", "comp_fcn"} ELSE {"driver"})
    /\ iterate \in {IterateOf(k) : k \in 1..MaxState}
    /\ direction \in (IF variant = "model"
                      THEN {DirectionOf(p) : p \in 1..GridLen}
                      ELSE {DirectionOf(1)})
    /\ fcn = ExtResult(iterate)
    /\ pc = "dead"
    /\ trigger = "operator"
    /\ currstep = NoStep
    /\ step_log = {}
    /\ saved_state = {}
    /\ files = [f \in FileNames |-> Missing]
    /\ jobs = 0
    /\ reinv = 0
    /\ submits = [k \in Keys |-> 0]
    /\ suspended = {}
    /\ evs = <<>>
    /\ ms_res = Missing
    /\ sigma = <<>>
    /\ ret = Missing
    /\ last_exit = "none"
    /\ ninvoke = 0
    /\ ncrash = 0
    /\ snap = NoSnap
    /\ seen = {}
    /\ failed = {}
    /\ parent_pc = "none"
    /\ LibIdle

\* no process has run in the work directory
ProcIdle ==
    /\ pc = "dead"
    /\ trigger = "operator"
    /\ currstep = NoStep
    /\ step_log = {}
    /\ saved_state = {}
    /\ files = [f \in FileNames |-> Missing]
    /\ jobs = 0
    /\ reinv = 0
    /\ submits = [k \in Keys |-> 0]
    /\ suspended = {}
    /\ evs = <<>>
    /\ ms_res = Missing
    /\ sigma = <<>>
    /\ ret = Missing
    /\ last_exit = "none"
    /\ ninvoke = 0
    /\ ncrash = 0
    /\ snap = NoSnap
    /\ seen = {}
    /\ failed = {}
    /\ parent_pc = "none"

\* no hook has been called: the work directory of a model run, untouched
MainIdle ==
    /\ variant = "model"
    /\ batch_cmd_precond = FALSE
    /\ reinvoke = FALSE
    /\ cmd = "driver"
    /\ iterate = IterateOf(1)
    /\ direction = DirectionOf(1)
    /\ fcn = ExtResult(iterate)
    /\ ProcIdle

ModelStep ==
    \/ JfspCheck
    \/ JfspReturn
    \/ RecCheck
    \/ RecLoad
    \/ RecDump
    \/ RecPopen
    \/ RecFlush
    \/ RecExit

CesmStep ==
    \/ CfPreCheck
    \/ CfPreDump
    \/ CfSubmit
    \/ CfPreLog
    \/ CfPreExit
    \/ CfPost
    \/ ApcCheck
    \/ ApcLoad
    \/ PsCheck
    \/ PsSubmit
    \/ PsLogExit
    \/ PsExit
    \/ PsLog
    \/ SlCheck
    \/ SlLoad
    \/ SlDump
    \/ SlSolve
    \/ SlLog
    \/ ApcLog
    \/ ApcDump

TestStep ==
    \/ TcfCheck
    \/ TcfLoad
    \/ TcfComp
    \/ TcfReturn
    \/ TcfLog
    \/ TcfPopen
    \/ TcfExit
    \/ TapCheck
    \/ TapLoad
    \/ TapComp
    \/ TapLog
    \/ TapDump

ProcStep == ModelStep \/ CesmStep \/ TestStep

EnvStep ==
    \/ Invoke
    \/ Reinvoke
    \/ ReinvokeEarly
    \/ ParentExit
    \/ Crash
    \/ JobComplete
    \/ JobAbandon
    \/ JobFail

Next == ProcStep \/ EnvStep

Spec == Init /\ [][Next]_vars

\* the scheduler runs a live process, and starts a queued re-invocation
FairSpec == Spec /\ WF_vars(ProcStep) /\ WF_vars(Reinvoke)

(* --------------- several calls in the same work directory --------------- *)

\* model.py lines 258-278: once comp_jacobian_fcn_state_prod has returned, it
\* is called for another direction or another iterate, with the residual at
\* that iterate; the work directory and its log are the same
NextCall ==
    /\ variant = "model"
    /\ pc = "dead"
    /\ last_exit = "complete"
    /\ Did("return", K_jac)
    /\ ninvoke < MaxInvoke
    /\ \E k \in 1..MaxState, p \in 1..GridLen :
        /\ <<IterateOf(k), DirectionOf(p)>> # <<iterate, direction>>
        /\ iterate' = IterateOf(k)
        /\ direction' = DirectionOf(p)
        /\ fcn' = ExtResult(IterateOf(k))
    /\ evs' = <<>>
    /\ ret' = Missing
    /\ UNCHANGED <<variant, batch_cmd_precond, reinvoke, cmd, libvars, pc, trigger, logvars,
                   files, envvars, submits, suspended, ms_res, sigma, last_exit, snap, seen,
                   failed, parent_pc>>

CallsNext ==
    \/ Next
    \/ NextCall

CallsSpec == Init /\ [][CallsNext]_vars

(* ----------------- the step log on its own (SolverState) ---------------- *)

\* any log state, any key; pc counts the calls of log_step made so far
LogInit ==
    /\ variant = "model"
    /\ batch_cmd_precond = FALSE
    /\ reinvoke = FALSE
    /\ cmd = "driver"
    /\ iterate = IterateOf(1)
    /\ direction = DirectionOf(1)
    /\ fcn = ExtResult(iterate)
    /\ pc \in {"log0", "dead"}
    /\ trigger = "operator"
    /\ currstep \in Keys
    /\ saved_state \in SUBSET Keys
    /\ step_log = IF pc = "dead" THEN {} ELSE saved_state
    /\ files = [f \in FileNames |-> Missing]
    /\ jobs = 0
    /\ reinv = 0
    /\ submits = [k \in Keys |-> 0]
    /\ suspended = {}
    /\ evs = <<>>
    /\ ms_res = Missing
    /\ sigma = <<>>
    /\ ret = Missing
    /\ last_exit = "none"
    /\ ninvoke = 0
    /\ ncrash = 0
    /\ snap = NoSnap
    /\ seen = {}
    /\ failed = {}
    /\ parent_pc = "none"
    /\ LibIdle

\* solver_state.log_step(currstep), called up to MaxCalls times in a row
LogStepCall ==
    /\ pc \in {"log0", "log1"}
    /\ step_log' = log_step(currstep, step_log)
    /\ saved_state' = log_step(currstep, step_log)
    /\ evs' = Append(evs, Event("log", currstep))
    /\ pc' = IF pc = "log0" THEN "log1" ELSE "log2"
    /\ UNCHANGED <<cfgvars, libvars, histvars, envvars, trigger, currstep, files, submits,
                   suspended, ms_res, sigma, ret, last_exit>>

\* the process goes away and a new one reads the log from storage
LogRestart ==
    /\ pc \in {"log1", "log2", "dead"}
    /\ pc' = "log0"
    /\ step_log' = load_log(saved_state)
    /\ \E k \in Keys : currstep' = k
    /\ evs' = <<>>
    /\ UNCHANGED <<cfgvars, libvars, histvars, envvars, trigger, saved_state, files, submits,
                   suspended, ms_res, sigma, ret, last_exit>>

LogNext == LogStepCall \/ LogRestart

LogSpec == LogInit /\ [][LogNext]_vars

(* ------------- mod_gram_schmidt and lin_comb on their own --------------- *)

\* a call of mod_gram_schmidt on any of the states with any of the bases, or
\* a call of lin_comb with one column of coeff per basis file
KrylovInit ==
    /\ MainIdle
    /\ kpc \in {"call_mgs", "call_lin_comb"}
    /\ basis \in Bases
    /\ vec \in (IF kpc = "call_mgs" THEN SelfVecs ELSE {Empty})
    /\ coeff \in (IF kpc = "call_mgs" THEN {<<>>}
                  ELSE [1..Len(basis) -> CoeffCols])
    /\ h_val = <<>>
    /\ i_val = 0
    /\ res = Empty
    /\ j_val = 0
    /\ AlgIdle
    /\ NewtonIdle
    /\ FnIdle

KrylovNext ==
    \/ MgsEnter
    \/ MgsStep
    \/ MgsReturn
    \/ LinCombFirst
    \/ LinCombStep
    \/ LinCombReturn

KrylovSpec == KrylovInit /\ [][KrylovNext]_vars

(* ------------------- the operators on their own ------------------------- *)

\* two states have been read from files: the operands
AlgInit ==
    /\ MainIdle
    /\ KrylovIdle
    /\ NewtonIdle
    /\ FnIdle
    /\ \E i \in SampleIds : \E j \in SampleIds :
        /\ heap = Alloc(Alloc(<<>>, Sample(i)), Sample(j))
        /\ lhs = 2 * Len(Sample(i).mods) + 2
        /\ rhs = Len(heap)
    /\ out = Empty
    /\ last = [fn |-> "none", op |-> "none", other |-> "none"]
    /\ nops = 0

AlgNext ==
    \/ AlgNeg
    \/ AlgBinary
    \/ AlgReflected
    \/ AlgInplace
    \/ AlgDot

AlgSpec == AlgInit /\ [][AlgNext]_vars

(* ----------------------- the Newton driver ----------------------------- *)

\* a solve is started on one of the starting iterates, with newton_max_iter
\* from the configuration
NewtonInit ==
    /\ ProcIdle
    /\ KrylovIdle
    /\ AlgIdle
    /\ FnIdle
    /\ variant = "model"
    /\ batch_cmd_precond = FALSE
    /\ reinvoke = FALSE
    /\ cmd = "driver"
    /\ x_0 \in {NewtonStart(k) : k \in 1..MaxStart}
    /\ iterate = x_0
    /\ fcn = Empty
    /\ direction = Empty
    /\ nstate = "EVALUATE_RESIDUAL"
    /\ iter = 0
    /\ nstep = Empty
    /\ njob = "none"
    /\ newton_max_iter \in 1..MaxNewtonIter

NDriverStep ==
    \/ NEvalSubmit
    \/ NEvalDone
    \/ NKrylovDirection
    \/ NKrylovSubmit
    \/ NKrylovDone
    \/ NPrecond
    \/ NUpdate

NewtonNext == NDriverStep \/ NJobComplete

NewtonSpec == NewtonInit /\ [][NewtonNext]_vars

\* every submitted job completes and re-invokes the driver, which then runs
NewtonFairSpec == NewtonSpec /\ WF_vars(NDriverStep) /\ WF_vars(NJobComplete)

(* ------------------- the operators in floats, on their own -------------- *)

\* the operands a, b and the scalar c
FloatInit ==
    /\ MainIdle
    /\ KrylovIdle
    /\ AlgIdle
    /\ NewtonIdle
    /\ fn_pc = "call"
    /\ fn_args \in [a : FloatStates, b : FloatStates, c : FloatScalars]
    /\ fn_tmp = Empty
    /\ fn_ret = Empty

FloatNext ==
    \/ FlAdd
    \/ FlSub
    \/ FlMul
    \/ FlDiv
    \/ FlDot

FloatSpec == FloatInit /\ [][FloatNext]_vars

(* ------------------------ dump and load, on their own ------------------- *)

\* a state of either variant is about to be dumped to a new file
DumpInit ==
    /\ MainIdle
    /\ KrylovIdle
    /\ AlgIdle
    /\ NewtonIdle
    /\ fn_pc = "define"
    /\ fn_args \in [self : DumpStates, variant : {"model", "cesm"}]
    /\ fn_tmp = [fptr |-> NewDataset, ind |-> 1, mods |-> <<>>]
    /\ fn_ret = Empty

DumpNext ==
    \/ DumpDefine
    \/ DumpWrite
    \/ DumpLoad

DumpSpec == DumpInit /\ [][DumpNext]_vars

(* --------------------- the configuration, on its own -------------------- *)

\* a program is started on a cfg file with a command line; no model is
\* configured yet
CfgInit ==
    /\ MainIdle
    /\ KrylovIdle
    /\ AlgIdle
    /\ NewtonIdle
    /\ fn_pc = "parse"
    /\ \E model_name \in {"test_problem", "cime_pop"} :
        fn_args \in [model_name : {model_name}, argv : Argvs(model_name), file : CfgFiles]
    /\ fn_tmp = [args |-> None, config |-> None, model_config_obj |-> None]
    /\ fn_ret = Empty

CfgNext ==
    \/ CfgParse
    \/ CfgRead
    \/ CfgConstruct

CfgSpec == CfgInit /\ [][CfgNext]_vars

(* -------------------- the constructor, on its own ----------------------- *)

\* TracerModule(name, dims, vals_fname) is called; the attributes of the new
\* object are not set yet
CtorInit ==
    /\ MainIdle
    /\ KrylovIdle
    /\ AlgIdle
    /\ NewtonIdle
    /\ fn_pc = "call"
    /\ fn_args \in [name : {"x", "y", "z"}, dims : CtorDims, vals_fname : CtorFiles]
    /\ fn_tmp = [name |-> Absent, varnames |-> <<>>, dims |-> Absent, vals |-> Absent]
    /\ fn_ret = Empty

CtorNext ==
    \/ CtorName
    \/ CtorCheck
    \/ CtorSetDims
    \/ CtorRead

CtorSpec == CtorInit /\ [][CtorNext]_vars

(* ------------------------------- claims -------------------------------- *)

IsPrefix(s, t) == Len(s) <= Len(t) /\ \A i \in 1..Len(s) : s[i] = t[i]

\* events appended by the step being taken
NewEvent(what, key) ==
    /\ Len(evs') > Len(evs)
    /\ IsPrefix(evs, evs')
    /\ \E i \in (Len(evs) + 1)..Len(evs') : evs'[i] = Event(what, key)

NoWorkYet == \A i \in 1..Len(evs) : evs[i][1] # "work"

\* the order in which the StepKeys of a hook sequence are completed
StepOrder(v) ==
    CASE v = "model" -> <<K_call>>
      [] v = "cesm" -> <<K_pre, K_ps, K_sl, K_done>>
      [] v = "test" -> <<K_cf, K_ap>>

RECURSIVE FirstUnlogged(_, _)
FirstUnlogged(order, log) ==
    IF order = <<>> THEN NoStep
    ELSE IF Head(order) \notin log THEN Head(order)
    ELSE FirstUnlogged(Tail(order), log)

\* file read back when a logged step is skipped; the two stages that only
\* submit (K_pre, K_ps) return nothing
HasOutput(k) == k \in {K_call, K_sl, K_done, K_cf, K_ap}

\* C1: run_ext_cmd whose StepKey is logged performs no external work in the
\* invocation: ext_in.nc is not written, nothing is launched, the log is not
\* flushed and sys.exit is not taken; what it returns is the state loaded
\* from res_fname (the load raises when the file does not exist).
C1_LoggedReturnsLoaded ==
    Did("skip", K_call) =>
        /\ ~Did("work", K_call)
        /\ ~Did("submit", K_call)
        /\ ~Did("flush", K_call)
        /\ ~Did("exit", K_call)
        /\ Did("load", K_call) \/ Did("raise", K_call) \/ pc \in {"rec_load", "dead"}
        /\ (Did("load", K_call) /\ pc = "jfsp_ret") =>
               (ms_res # Missing /\ ms_res = files["fcn_res.nc"])
        /\ (pc = "dead") => last_exit # "suspend"

C1_Witness ==
    /\ pc = "jfsp_ret"
    /\ Did("skip", K_call)
    /\ Did("load", K_call)
    /\ ms_res = ExtResult(Perturbed(iterate, Sigma(iterate)))

SuspendTrace ==
    <<Event("enter", K_jac), Event("enter", K_call), Event("work", K_call),
      Event("submit", K_call), Event("flush", K_call), Event("exit", K_call)>>

\* C2: run_ext_cmd whose StepKey is not logged writes ext_in.nc, launches the
\* command, flushes the log and exits, in this order and doing nothing else;
\* it never returns to its caller in the same invocation.
C2_SuspendOrder ==
    (variant = "model" /\ Did("enter", K_call)) =>
        /\ IsPrefix(evs, SuspendTrace)
        /\ Did("work", K_call) => files["ext_in.nc"] = Perturbed(iterate, Sigma(iterate))
        /\ Did("exit", K_call) <=> (pc = "dead" /\ last_exit = "suspend")
        /\ (pc = "dead" /\ last_exit = "suspend") => evs = SuspendTrace
        /\ pc \notin {"rec_load", "jfsp_ret"}
        /\ ms_res = Missing
        /\ ret = Missing

C2_Witness ==
    /\ variant = "model"
    /\ pc = "dead"
    /\ last_exit = "suspend"
    /\ evs = SuspendTrace
    /\ jobs = 1

\* C3: the external command of a StepKey is submitted at most once, over all
\* invocations on the work directory, crashes included.
C3_AtMostOnce == \A k \in Keys : submits[k] <= 1

\* C4: a step's work is never performed by a process that finds its StepKey
\* logged; such a process skips the step and, where the step has an output
\* file, reads it instead.
C4_NoReexecution ==
    /\ [][\A k \in Keys : NewEvent("work", k) =>
              (k \notin saved_state /\ k \notin step_log)]_vars
    /\ [](\A k \in Keys :
              Did("skip", k) =>
                  /\ k \in saved_state
                  /\ ~Did("work", k)
                  /\ ~Did("submit", k)
                  /\ HasOutput(k) =>
                        \/ Did("load", k) \/ Did("raise", k)
                        \/ pc \in {"rec_load", "sl_load", "apc_load",
                                   "tcf_load", "tap_load", "dead"})

C4_Witness ==
    /\ variant = "cesm"
    /\ Did("skip", K_pre)
    /\ Did("skip", K_ps)
    /\ Did("skip", K_sl)
    /\ Did("load", K_sl)
    /\ pc = "apc_log"

\* C5: in every invocation the first step whose work is performed is the
\* first unlogged step of the hook sequence, and only logged steps are
\* skipped.
C5_ResumeAtFirstUnlogged ==
    /\ [][\A k \in Keys : (NoWorkYet /\ NewEvent("work", k)) =>
              k = FirstUnlogged(StepOrder(variant), saved_state)]_vars
    /\ [](\A k \in Keys : Did("skip", k) => (k \in saved_state /\ ~Did("work", k)))

C5_Witness ==
    /\ variant = "cesm"
    /\ last_exit = "crash"
    /\ Did("skip", K_pre)
    /\ Did("skip", K_ps)
    /\ Did("work", K_sl)
    /\ ~Did("work", K_ps)
    /\ pc = "sl_solve"

\* C6: no external job is submitted and no suspending exit is taken for a
\* StepKey that the saved log does not record yet.
C6_FlushBeforeEffects ==
    \A k \in Keys :
        /\ Did("submit", k) => k \in saved_state
        /\ Did("exit", k) => k \in saved_state

\* C7: once run_ext_cmd has suspended by exit, a driver re-invoked by the
\* finished job finds the StepKey logged and target_path present, returns the
\* loaded state, and (unless it is killed) gets past the step.
C7_Safe ==
    (/\ variant = "model"
     /\ trigger = "job"
     /\ K_call \in suspended
     /\ pc \notin {"dead", "jfsp_check", "rec_check"}) =>
        /\ Did("skip", K_call)
        /\ pc \in {"rec_load", "jfsp_ret"}
        /\ files["fcn_res.nc"] # Missing
        /\ pc = "jfsp_ret" => ms_res = files["fcn_res.nc"]

C7_Done ==
    /\ variant = "model"
    /\ pc = "dead"
    /\ trigger = "job"
    /\ last_exit = "complete"
    /\ ret # Missing
    /\ ret = FiniteDiff(files["fcn_res.nc"], fcn, Sigma(iterate))

C7_ResumePastStep ==
    /\ []C7_Safe
    /\ \A c \in 0..MaxCrash :
           (variant = "model" /\ K_call \in suspended /\ reinv > 0 /\ ncrash = c)
               ~> (C7_Done \/ ncrash > c)
    /\ [](variant = "model" /\ trigger = "job" /\ K_call \in suspended
              /\ pc = "dead" /\ last_exit = "complete"
          => ret = FiniteDiff(files["fcn_res.nc"], fcn, Sigma(iterate)))

C7_Witness ==
    /\ variant = "model"
    /\ trigger = "job"
    /\ K_call \in suspended
    /\ pc = "dead"
    /\ last_exit = "complete"
    /\ files["fcn_res.nc"] = ExtResult(Perturbed(iterate, Sigma(iterate)))
    /\ ret = FiniteDiff(ExtResult(Perturbed(iterate, Sigma(iterate))), fcn, Sigma(iterate))

\* every job submitted for K_call was abandoned: none runs, none has written
Abandoned ==
    /\ variant = "model"
    /\ submits[K_call] >= 1
    /\ jobs = 0
    /\ reinv = 0
    /\ files["fcn_res.nc"] = Missing

C9_LogOnlyGrows ==
    /\ [][saved_state \subseteq saved_state']_vars
    /\ [][\A k \in Keys : NewEvent("log", k) =>
              (k \in step_log' /\ k \in saved_state')]_vars
    /\ [](pc # "dead" => saved_state \subseteq step_log)

C9_Witness ==
    /\ variant = "cesm"
    /\ trigger = "job"
    /\ pc = "sl_check"
    /\ Did("skip", K_pre)
    /\ Did("skip", K_ps)
    /\ {K_pre, K_ps} \subseteq step_log

\* C10: log_step of a key that is already logged changes neither the logged
\* set nor the saved log, so two calls leave what one call leaves.
C10_LogStepIdempotent ==
    /\ [][(pc = "log1" /\ pc' = "log2") =>
              (step_log' = step_log /\ saved_state' = saved_state)]_vars
    /\ [][(pc \in {"log0", "log1"} /\ pc' \in {"log1", "log2"}
              /\ currstep \in step_log) =>
              (step_log' = step_log /\ saved_state' = saved_state)]_vars
    /\ [](pc \in {"log1", "log2"} => currstep \in step_log)

C10_Witness ==
    /\ pc = "log2"
    /\ Len(evs) = 2
    /\ currstep \in step_log
    /\ Cardinality(step_log) = 3

\* C11: set_currstep(key) records the step in flight and leaves the logged
\* set as it was: the call changes neither the log of the process nor the
\* saved log, and for a key that was not logged before the call both
\* step_logged(key) and currstep_logged() are false right after it.
C11_SetStepKeepsLog ==
    [][\A k \in {K_jac, K_call} :
          (pc \in {"jfsp_check", "rec_check"}
              /\ (NewEvent("enter", k) \/ NewEvent("skip", k))) =>
              /\ currstep' = k
              /\ step_log' = step_log
              /\ saved_state' = saved_state
              /\ (~step_logged(k, step_log) =>
                      /\ ~step_logged(k, step_log')
                      /\ ~currstep_logged(currstep', step_log'))]_vars

C11_Witness ==
    /\ variant = "model"
    /\ pc = "rec_dump"
    /\ currstep = K_call
    /\ Did("enter", K_call)
    /\ ~step_logged(K_call, step_log)
    /\ ~currstep_logged(currstep, step_log)

Cells(s, m) ==
    {<<r, c>> : r \in 1..Len(s.mods[m].vals), c \in 1..Len(s.mods[m].vals[1])}

At(s, m, rc) == s.mods[m].vals[rc[1]][rc[2]]

\* the dot product of module m of a and b, summed entry by entry
RECURSIVE SumCells(_, _, _, _)
SumCells(a, b, m, cells) ==
    IF cells = {} THEN Float(0)
    ELSE LET rc == CHOOSE x \in cells : TRUE
         IN  FAdd(FMul(At(a, m, rc), At(b, m, rc)), SumCells(a, b, m, cells \ {rc}))

ModuleDot(a, b, m) == SumCells(a, b, m, Cells(a, m))

\* every module of every basis vector has norm 1 and is orthogonal to the
\* same module of every other basis vector
Orthonormal(b) ==
    \A i \in 1..Len(b) : \A j \in 1..Len(b) : \A m \in 1..Len(b[i].mods) :
        ModuleDot(b[i], b[j], m) = (IF i = j THEN Float(1) ELSE Float(0))

LinCombAt(m, rc) ==
    FSum([j \in 1..Len(coeff) |-> FMul(coeff[j][m], At(basis[j], m, rc))])

\* C18: lin_comb returns the sum over the columns j of coeff of
\* coeff[:, j] * basis[j], the coefficient applied per module, whatever the
\* number of columns of coeff.
C18_LinCombAnyColumns ==
    (kpc \in {"lc_ret", "lc_raise"}) =>
        /\ kpc = "lc_ret"
        /\ ~IsErr(res)
        /\ \A m \in 1..Len(res.mods) : \A rc \in Cells(res, m) :
               At(res, m, rc) = LinCombAt(m, rc)

\* lin_comb with at least one column returns that sum
LinCombSomeColumns ==
    (kpc = "lc_ret") =>
        /\ Len(coeff) >= 1
        /\ \A m \in 1..Len(res.mods) : \A rc \in Cells(res, m) :
               At(res, m, rc) = LinCombAt(m, rc)

\* the two ModelStates differ in their module names or in the shape of the
\* arrays of some module
Mismatched(a, b) ==
    \/ a.names # b.names
    \/ Len(a.mods) # Len(b.mods)
    \/ \E i \in 1..Len(a.mods) : Shape(a.mods[i].vals) # Shape(b.mods[i].vals)

\* C19: an arithmetic operation or a dot product between two ModelStates
\* whose module names or array shapes differ raises and returns nothing.
C19_MismatchFails ==
    [][(nops' = nops + 1 /\ last'.other = "ModelState"
            /\ Mismatched(Deref(heap, lhs), Deref(heap, rhs))) =>
           IsErr(out')]_vars

\* operands of matching names and shapes do not raise
MatchedOperandsWork ==
    [][(nops' = nops + 1 /\ last'.other = "ModelState"
            /\ ~Mismatched(Deref(heap, lhs), Deref(heap, rhs))) =>
           ~IsErr(out')]_vars

\* C20: -a, a op b and the reversed forms return a ModelState none of whose
\* objects existed before and leave every object that existed, the operands
\* among them, as it was; a op= b returns a itself, changes nothing but
\* the array of a and leaves b as it was (a and b being different objects).
C20_OperatorFrames ==
    [][(nops' = nops + 1) =>
          /\ (last'.fn \in {"neg", "binary", "reflected"} =>
                /\ \A p \in 1..Len(heap) : heap'[p] = heap[p]
                /\ Deref(heap', lhs) = Deref(heap, lhs)
                /\ Deref(heap', rhs) = Deref(heap, rhs)
                /\ ~IsErr(out') =>
                      /\ out'.addr > Len(heap)
                      /\ \A q \in Reach(heap', out'.addr) : q > Len(heap))
          /\ (last'.fn = "inplace" =>
                /\ \A p \in 1..Len(heap) : p # heap[lhs].arr => heap'[p] = heap[p]
                /\ Deref(heap', rhs) = Deref(heap, rhs)
                /\ Reach(heap', rhs) = Reach(heap, rhs)
                /\ Reach(heap', lhs) \cap Reach(heap', rhs) = {}
                /\ ~IsErr(out') => out'.addr = lhs)]_vars

C20_Witness ==
    /\ last.fn = "inplace"
    /\ last.op = "sub"
    /\ last.other = "ModelState"
    /\ out = [addr |-> lhs]
    /\ Deref(heap, rhs) = Sample(2)
    /\ Deref(heap, lhs) = MsBinary("sub", Sample(1), Sample(2))
    /\ Deref(heap, lhs) # Sample(1)
    /\ Reach(heap, lhs) \cap Reach(heap, rhs) = {}

\* what a process did before an exception, if any, ended it
Attempts(s) ==
    IF s # <<>> /\ s[Len(s)][1] = "raise" THEN SubSeq(s, 1, Len(s) - 1) ELSE s

\* one sequence of events continues the other, up to the exception that an
\* external command may or may not raise
Comparable(s, t) ==
    IsPrefix(Attempts(s), Attempts(t)) \/ IsPrefix(Attempts(t), Attempts(s))

\* C14: what a process does on re-entry is determined by the log and the
\* files it starts from: as long as the files are those it started from, the
\* running process has done what every earlier process started from the same
\* log and the same files did (until it was killed or an external command
\* failed), whoever started either of them and whatever ran before them.
C14_PositionFromLogAndFiles ==
    /\ [](pc # "dead" /\ files = snap.files =>
              \A e \in seen : e.snap = snap => Comparable(evs, e.evs))
    /\ [][(pc = "dead" /\ pc' # "dead") =>
              /\ step_log' = saved_state
              /\ currstep' = NoStep
              /\ ms_res' = Missing
              /\ sigma' = <<>>
              /\ pc' = Top(variant)]_vars

C14_Witness ==
    /\ pc # "dead"
    /\ trigger = "operator"
    /\ files = snap.files
    /\ snap.log # {}
    /\ Len(evs) >= 2
    /\ \E e \in seen :
           /\ e.snap = snap
           /\ Len(e.evs) >= 2
           /\ IsPrefix(Attempts(e.evs), evs)
           /\ \E i \in 1..Len(e.evs) : e.evs[i][1] = "skip"
    /\ ncrash > 0
    /\ suspended # {}

\* every module of s has a norm below 1.0e-10, the norm being the square
\* root of the entry-by-entry sum of squares
AllModulesBelowTol(s) ==
    \A m \in 1..Len(s.mods) : BelowTol(FSqrt(ModuleDot(s, s, m)))

\* C12: the Newton driver enters CONVERGED from EVALUATE_RESIDUAL only, with
\* F(x_n) evaluated at the current iterate and every module's norm of it
\* below 1.0e-10; the driver leaves EVALUATE_RESIDUAL for CONVERGED whenever
\* that holds and for another state whenever it does not; and once in
\* CONVERGED nothing changes any more: no job is submitted, no residual, basis
\* vector, Jacobian product or step is computed and the iterate stays.
C12_ConvergedExactly ==
    [][/\ (nstate # "CONVERGED" /\ nstate' = "CONVERGED") =>
              /\ nstate = "EVALUATE_RESIDUAL"
              /\ fcn = MsBinary("sub", iterate, Target)
              /\ AllModulesBelowTol(fcn)
       /\ (nstate = "EVALUATE_RESIDUAL" /\ nstate' # nstate) =>
              (nstate' = "CONVERGED" <=> AllModulesBelowTol(fcn))
       /\ nstate = "CONVERGED" => UNCHANGED vars]_vars

C12_Witness ==
    /\ nstate = "CONVERGED"
    /\ iter = 1
    /\ iterate # x_0
    /\ AllModulesBelowTol(fcn)

\* C13: the driver enters FAILED from EVALUATE_RESIDUAL only, with F(x_n) not
\* converged and the iteration count at newton_max_iter, and with such a
\* residual and count it enters no other state; the count never passes
\* newton_max_iter; once in FAILED nothing changes any more (no retry); and,
\* every submitted job completing and re-invoking the driver, every run
\* reaches CONVERGED or FAILED.
C13_FailedOrConverged ==
    /\ [][/\ (nstate # "FAILED" /\ nstate' = "FAILED") =>
                 /\ nstate = "EVALUATE_RESIDUAL"
                 /\ ~AllModulesBelowTol(fcn)
                 /\ iter >= newton_max_iter
          /\ (/\ nstate = "EVALUATE_RESIDUAL"
              /\ nstate' # nstate
              /\ ~AllModulesBelowTol(fcn)
              /\ iter >= newton_max_iter) => nstate' = "FAILED"
          /\ iter' <= newton_max_iter
          /\ nstate = "FAILED" => UNCHANGED vars]_vars
    /\ <>(nstate \in {"CONVERGED", "FAILED"})

C13_Witness ==
    /\ nstate = "FAILED"
    /\ iter = newton_max_iter
    /\ iter > 1
    /\ ~AllModulesBelowTol(fcn)
    /\ njob = "none"

\* C15: scenario A, the solve of F(x) = x - Target from the all-zero starting
\* iterate ends in CONVERGED after exactly 1 Newton iteration.
C15_ScenarioA ==
    (x_0 = NewtonStart(1) /\ nstate \in {"CONVERGED", "FAILED"}) =>
        (nstate = "CONVERGED" /\ iter = 1)

\* the same solve from a starting iterate with no all-zero module and no
\* module already at the target ends in CONVERGED after exactly 1 Newton
\* iteration
ScenarioNonZeroStart ==
    (/\ \A m \in 1..Len(x_0.mods) :
           /\ ModuleDot(x_0, x_0, m) # Float(0)
           /\ ModuleDot(ExtResult(x_0), ExtResult(x_0), m) # Float(0)
     /\ nstate \in {"CONVERGED", "FAILED"}) =>
        (nstate = "CONVERGED" /\ iter = 1)

\* such a solve reaches CONVERGED
ScenarioNonZeroStart_Witness ==
    /\ \A m \in 1..Len(x_0.mods) : ModuleDot(x_0, x_0, m) # Float(0)
    /\ nstate = "CONVERGED"
    /\ iter = 1

\* every entry of r is within |bound entry| / 2^k of the same entry of a
WithinOf(r, a, k, bound) ==
    \A m \in 1..Len(a.mods) : \A rc \in Cells(a, m) :
        FLeq(FMul(FAbs(FSub(At(r, m, rc), At(a, m, rc))), Float(Pow2(k))),
             bound[m][rc[1]][rc[2]])

\* |a| + |b| and |a|, entry by entry
AbsSum(a, b) ==
    [m \in 1..Len(a.mods) |->
        [i \in 1..Len(a.mods[m].vals) |->
            [j \in 1..Len(a.mods[m].vals[1]) |->
                FAdd(FAbs(a.mods[m].vals[i][j]), FAbs(b.mods[m].vals[i][j]))]]]

AbsOf(a) ==
    [m \in 1..Len(a.mods) |->
        [i \in 1..Len(a.mods[m].vals) |->
            [j \in 1..Len(a.mods[m].vals[1]) |-> FAbs(a.mods[m].vals[i][j])]]]

C22_DumpLoadRoundTrip ==
    /\ fn_pc # "raised"
    /\ fn_pc = "loaded" => fn_ret = fn_args.self

C22_Witness ==
    /\ fn_pc = "loaded"
    /\ fn_args.variant = "cesm"
    /\ fn_tmp.fptr.vars[<<"x2", "_OLD">>] # NoVar
    /\ fn_ret.mods[1].vals = fn_args.self.mods[1].vals
    /\ fn_args.self \in FloatStates

\* the process has just ended on the failure of the command it ran for k
RaisedOn(k) ==
    /\ pc = "dead"
    /\ Len(evs) >= 2
    /\ evs[Len(evs)] = Event("raise", k)
    /\ evs[Len(evs) - 1] \in {Event("work", k), Event("enter", k)}

\* C23: when an external command dispatched for a step exits with a non-zero
\* status, the process that dispatched it ends with the error and the StepKey
\* of the step is not in the saved log, neither then nor later.
C23_FailedCommandNotLogged ==
    /\ \A k \in failed : k \notin saved_state
    /\ \A k \in {K_pre, K_ps, K_sl} :
           RaisedOn(k) => (last_exit = "error" /\ k \notin saved_state)

\* the same for the commands that are run with check=True (case.submit, the
\* batch command of the preconditioner and the linear solves)
CheckedCommandNotLogged ==
    \A k \in {K_pre, K_ps, K_sl} :
        RaisedOn(k) => (last_exit = "error" /\ k \notin saved_state)

CheckedCommandNotLogged_Witness ==
    /\ RaisedOn(K_sl)
    /\ K_ps \in saved_state

C25_CompletionLoggedImpliesWritten ==
    /\ step_logged(K_done, saved_state) => files["precond_res.nc"] # Missing
    /\ step_logged(K_ap, saved_state) => files["precond_res.nc"] # Missing
    /\ step_logged(K_cf, saved_state) => files["fcn.nc"] # Missing

\* the part of it that is about comp_fcn of test_problem, which writes the
\* file before it logs the step
CompFcnLoggedImpliesWritten ==
    step_logged(K_cf, saved_state) => files["fcn.nc"] = TestFcn(iterate)

CompFcnLoggedImpliesWritten_Witness ==
    /\ step_logged(K_cf, saved_state)
    /\ pc = "dead"
    /\ last_exit = "crash"

\* the suspending stages of the cesm_pop hooks, and whether a stage suspends
SuspendingStages == {K_pre, K_ps}

Suspends(k) == k = K_pre \/ batch_cmd_precond

\* every event b of the invocation has an event a before it
EvBefore(a, b) ==
    \A j \in DOMAIN evs : evs[j] = b => \E i \in 1..(j - 1) : evs[i] = a

\* an event of the work that follows stage k
DidAfterStage(k) ==
    \/ k = K_pre /\ Did("post", K_pre)
    \/ k = K_pre /\ \E i \in DOMAIN evs : evs[i][2] \in {K_ps, K_sl, K_done}
    \/ k = K_ps /\ \E i \in DOMAIN evs :
          evs[i][2] = K_sl \/ (evs[i][2] = K_done /\ evs[i][1] # "enter")

\* C26: a suspending stage of the cesm_pop hooks submits its job only when
\* its StepKey is unlogged, logs the key only after the submission has
\* succeeded and then exits; when the key is logged it returns without
\* submitting. With an empty batch_cmd_precond the pre-solve stage logs and
\* goes on in the same process. The work after a stage never runs in the
\* invocation that submitted the job.
C26_SuspendingStages ==
    /\ [][\A k \in SuspendingStages :
              NewEvent("submit", k) => (k \notin step_log /\ k \notin saved_state)]_vars
    /\ [](variant = "cesm" =>
            /\ \A k \in SuspendingStages :
                  /\ Did("submit", k) => (Suspends(k) /\ Did("enter", k) /\ ~Did("skip", k))
                  /\ Suspends(k) => EvBefore(Event("submit", k), Event("log", k))
                  /\ Did("raise", k) /\ Did("enter", k) => ~Did("log", k)
                  /\ (Suspends(k) /\ Did("log", k)) =>
                        /\ pc \in {"cf_pre_exit", "ps_exit", "dead"}
                        /\ (pc = "dead" /\ last_exit # "crash") =>
                              /\ last_exit = "suspend"
                              /\ evs[Len(evs)] = Event("exit", k)
                  /\ Did("exit", k) => EvBefore(Event("log", k), Event("exit", k))
                  /\ Did("skip", k) => (~Did("submit", k) /\ ~Did("log", k) /\ ~Did("exit", k))
                  /\ Did("submit", k) => ~DidAfterStage(k)
            /\ (~batch_cmd_precond /\ Did("log", K_ps)) =>
                  /\ ~Did("submit", K_ps)
                  /\ ~Did("exit", K_ps)
                  /\ pc = "dead" => (DidAfterStage(K_ps) \/ last_exit = "crash"))

C26_Witness ==
    /\ variant = "cesm"
    /\ batch_cmd_precond
    /\ pc = "dead"
    /\ last_exit = "suspend"
    /\ Did("skip", K_pre)
    /\ Did("post", K_pre)
    /\ Did("submit", K_ps)
    /\ evs[Len(evs)] = Event("exit", K_ps)
    /\ K_pre \in suspended

\* what a test_problem comp_fcn that re-invokes does, in order
ReinvokeTrace ==
    <<Event("enter", K_cf), Event("work", K_cf), Event("log", K_cf),
      Event("submit", K_cf), Event("exit", K_cf)>>

\* C27: test_problem comp_fcn with a solver_state and reinvoke true writes
\* the result file, logs 'comp_fcn complete for <res_fname>', spawns the
\* invoker and exits, in this order; the driver started by the invoker, also
\* while its parent has not exited, finds the key logged and the file
\* complete and never recomputes. With solver_state None comp_fcn never logs,
\* never spawns the invoker and never exits the process.
C27_ReinvokeAfterLog ==
    /\ [][(cmd = "driver" /\ NewEvent("work", K_cf)) =>
              (K_cf \notin saved_state /\ submits[K_cf] = 0 /\ trigger = "operator")]_vars
    /\ []((variant = "test" /\ cmd = "driver" /\ reinvoke) =>
            /\ Did("enter", K_cf) => IsPrefix(evs, ReinvokeTrace)
            /\ Did("work", K_cf) => files["fcn.nc"] = TestFcn(iterate)
            /\ Did("log", K_cf) => step_logged(K_cf, saved_state)
            /\ submits[K_cf] > 0 =>
                  /\ step_logged(K_cf, saved_state)
                  /\ files["fcn.nc"] = TestFcn(iterate)
            /\ (trigger = "job" /\ evs # <<>>) =>
                  /\ Did("skip", K_cf)
                  /\ ~Did("work", K_cf)
                  /\ pc \notin {"tcf_comp", "tcf_log", "tcf_popen", "tcf_exit"}
                  /\ Did("load", K_cf) \/ pc \in {"tcf_load", "dead"}
                  /\ pc = "tap_check" => ms_res = TestFcn(iterate))
    /\ [](cmd = "comp_fcn" =>
            /\ saved_state = {}
            /\ step_log = {}
            /\ submits[K_cf] = 0
            /\ reinv = 0
            /\ parent_pc = "none"
            /\ ~Did("log", K_cf) /\ ~Did("submit", K_cf) /\ ~Did("exit", K_cf)
            /\ last_exit # "suspend"
            /\ Did("return", K_cf) => (ret = TestFcn(iterate) /\ last_exit = "complete"))

C27_Witness ==
    /\ variant = "test"
    /\ cmd = "driver"
    /\ reinvoke
    /\ parent_pc = "tcf_exit"
    /\ trigger = "job"
    /\ Did("skip", K_cf)
    /\ Did("load", K_cf)
    /\ pc = "tap_comp"

\* solver_state None: the function has been evaluated and has returned
SolverStateNoneReturns ==
    /\ cmd = "comp_fcn"
    /\ reinvoke
    /\ pc = "dead"
    /\ Did("work", K_cf)
    /\ Did("return", K_cf)

\* C28: a call of comp_jacobian_fcn_state_prod that finds the StepKey of the
\* evaluation logged finds it logged for its own perturbed state, and the
\* finite difference it returns is built from F at its own
\* iterate + sigma * direction, also when other directions or iterates were
\* called before it in the same work directory.
C28_OwnPerturbedState ==
    variant = "model" =>
        /\ Did("skip", K_call) => files["ext_in.nc"] = Perturbed(iterate, Sigma(iterate))
        /\ Did("load", K_call) =>
              files["fcn_res.nc"] = ExtResult(Perturbed(iterate, Sigma(iterate)))
        /\ Did("return", K_jac) =>
              ret = FiniteDiff(ExtResult(Perturbed(iterate, Sigma(iterate))), fcn,
                               Sigma(iterate))

\* C29: for every iterate comp_jacobian_fcn_state_prod is called on, the
\* all-zero one and those with one all-zero module included, every component
\* of sigma = 1.0e-5 * norm(iterate) is non-zero, the perturbed state differs
\* from the iterate and every entry of the returned quotient is a finite
\* number.
C29_SigmaNonZero ==
    (variant = "model" /\ sigma # <<>>) =>
        /\ \A i \in 1..Len(sigma) : sigma[i] # Float(0)
        /\ Perturbed(iterate, sigma) # iterate
        /\ (Did("return", K_jac) /\ ret # Missing) =>
              \A m \in 1..Len(ret.mods) : \A rc \in Cells(ret, m) :
                  IsFinite(At(ret, m, rc))

\* on an iterate with no all-zero module sigma has no zero component and the
\* returned quotient is finite
SigmaNonZeroOnNonZeroModules ==
    (/\ variant = "model"
     /\ sigma # <<>>
     /\ \A i \in 1..Len(iterate.names) : MsDot(iterate, iterate)[i] # Float(0)) =>
        /\ \A i \in 1..Len(sigma) : sigma[i] # Float(0)
        /\ Perturbed(iterate, sigma) # iterate
        /\ (Did("return", K_jac) /\ ret # Missing) =>
              \A m \in 1..Len(ret.mods) : \A rc \in Cells(ret, m) :
                  IsFinite(At(ret, m, rc))

SigmaNonZeroOnNonZeroModules_Witness ==
    /\ variant = "model"
    /\ \A i \in 1..Len(iterate.names) : MsDot(iterate, iterate)[i] # Float(0)
    /\ pc = "dead"
    /\ Did("return", K_jac)
    /\ ret = direction

\* exactly one of dims and vals_fname is passed
ExactlyOnePassed == (fn_args.dims = None) # (fn_args.vals_fname = None)

\* C30: TracerModule(name, dims, vals_fname) with a known name raises
\* ValueError unless exactly one of dims and vals_fname is passed, and
\* constructs the object only when exactly one is.
C30_ExactlyOneOrValueError ==
    fn_args.name \in DOMAIN ModuleVarnames =>
        /\ fn_pc = "constructed" => ExactlyOnePassed
        /\ ~ExactlyOnePassed => fn_pc \in {"call", "check", "raised"}
        /\ (fn_pc = "raised" /\ fn_ret = Err("ValueError")) => ~ExactlyOnePassed

\* when exactly one of them is passed the object is constructed from it
ConstructedFromTheOnePassed ==
    (fn_pc = "constructed" /\ ExactlyOnePassed) =>
        /\ fn_ret.name = Str(fn_args.name)
        /\ fn_args.dims # None => (fn_ret.dims = fn_args.dims /\ fn_ret.vals = Absent)
        /\ fn_args.vals_fname # None =>
              /\ fn_ret.dims = [z |-> fn_args.vals_fname.fname.dims["z"]]
              /\ fn_ret.vals # Absent

ConstructedFromTheOnePassed_Witness ==
    /\ fn_pc = "constructed"
    /\ fn_args.dims = None
    /\ fn_args.vals_fname # None
    /\ fn_ret.vals # Absent

====
